---- MODULE Spec2Model ----
(***************************************************************************)
(* Model of backend/app.py: the in-memory chat backend (hash-table store,  *)
(* friend graph, messaging, notifications, presence).                      *)
(*                                                                         *)
(* Strings that are used as keys are modelled as sequences of code points  *)
(* (a uuid is abstracted to a one-symbol string), so that the f-string     *)
(* "{a}_{b}" and the hash "sum(ord(c)) % size" are computed as the code    *)
(* computes them.  A HashTable is kept as the sequence of its nodes in     *)
(* get_all() order: bucket by bucket, each bucket in chain order.          *)
(***************************************************************************)
EXTENDS Integers, Sequences, FiniteSets, TLC

VARIABLES users, messages, friend_requests, friends, notifications,
          online_users, typing_users, message_status, sessions, threads, last

vars == <<users, messages, friend_requests, friends, notifications,
          online_users, typing_users, message_status, sessions, threads, last>>

\* ------------------------------------------------------------------ bounds
MaxUsers == 2
MaxMessages == 2
MaxNotifications == 2
MaxSessions == 3
MaxTime == 0
\* pending requests plus friendships that the store is let to hold
MaxEdges == 2
\* latest clock reading a typing entry can carry
MaxTypingTime == 1
\* handler invocations that can be in flight together
MaxThreads == 2
\* nodes that the HashTable driven by itself is let to hold
MaxNodes == 3

\* ------------------------------------------------------- program constants
HashTableSize == 100
Underscore == 95

\* ------------------------------------------------------------------ inputs
UserIdPool == {<<i>> : i \in 1..MaxUsers}
GhostId == <<9>>
MessageIdPool == {<<10 + i>> : i \in 1..MaxMessages}
NotificationIdPool == {<<20 + i>> : i \in 1..MaxNotifications}
SessionIds == 1..MaxSessions
Missing == "<missing>"
NameOf == <<"ann", "bob", "cat", "dan">>
EmailOf == <<"a@x", "b@x", "c@x", "d@x">>
Usernames == {NameOf[i] : i \in 1..MaxUsers}
Emails == {EmailOf[i] : i \in 1..MaxUsers}
Passwords == {"pw"}
Contents == {"hi"}

\* ---------------------------------------------------------------- helpers
None == <<>>
Some(v) == <<v>>
Truthy(x) == x # None
\* "not data.get(f)": a missing or empty string field, an empty id
Falsy(s) == s = Missing \/ s = ""
FalsyId(k) == k = <<>>

RECURSIVE SumSeq(_)
SumSeq(s) == IF s = <<>> THEN 0 ELSE Head(s) + SumSeq(Tail(s))

FirstIndex(l, k) == CHOOSE j \in 1..Len(l) :
                       /\ l[j].key = k
                       /\ \A i \in 1..(j - 1) : l[i].key # k

\* ------------------------------------------------------------- LinkedList
LinkedList_add(l, k, v) == Append(l, [key |-> k, value |-> v])

LinkedList_get(l, k) ==
    IF \E j \in 1..Len(l) : l[j].key = k
    THEN Some(l[FirstIndex(l, k)].value)
    ELSE None

LinkedList_remove_head_only(l, k) ==
    IF l # <<>> /\ l[1].key = k THEN Tail(l) ELSE l

LinkedList_remove(l, k) ==
    IF \E j \in 1..Len(l) : l[j].key = k
    THEN LET j == FirstIndex(l, k)
         IN  SubSeq(l, 1, j - 1) \o SubSeq(l, j + 1, Len(l))
    ELSE l

LinkedList_get_all(l) == [j \in 1..Len(l) |-> l[j].value]

LinkedList_update(l, k, v) ==
    IF \E j \in 1..Len(l) : l[j].key = k
    THEN [l EXCEPT ![FirstIndex(l, k)].value = v]
    ELSE l

\* -------------------------------------------------------------- HashTable
HashTable_hash(key) == SumSeq(key) % HashTableSize

Bucket(t, index) == SelectSeq(t, LAMBDA n : HashTable_hash(n.key) = index)

WithBucket(t, index, chain) ==
    SelectSeq(t, LAMBDA n : HashTable_hash(n.key) < index)
        \o chain
        \o SelectSeq(t, LAMBDA n : HashTable_hash(n.key) > index)

HashTable_get(t, key) == LinkedList_get(Bucket(t, HashTable_hash(key)), key)

\* "if existing" (line 93) is Python's truth test of the stored value: a dict,
\* a list or a string is true when it is not empty
PyTrue(value) == DOMAIN value # {}

HashTable_insert(t, key, value) ==
    LET index == HashTable_hash(key)
        existing == LinkedList_get(Bucket(t, index), key)
    IN  IF Truthy(existing) /\ PyTrue(existing[1])
        THEN WithBucket(t, index, LinkedList_update(Bucket(t, index), key, value))
        ELSE WithBucket(t, index, LinkedList_add(Bucket(t, index), key, value))

HashTable_remove(t, key) ==
    LET index == HashTable_hash(key)
    IN  WithBucket(t, index, LinkedList_remove(Bucket(t, index), key))

\* what remove returns: LinkedList.remove found a node with the key
HashTable_remove_found(t, key) ==
    \E j \in 1..Len(Bucket(t, HashTable_hash(key))) :
        Bucket(t, HashTable_hash(key))[j].key = key

HashTable_get_all(t) == LinkedList_get_all(t)

Keys(t) == {t[j].key : j \in 1..Len(t)}
Has(t, key) == Truthy(HashTable_get(t, key))
Val(t, key) == HashTable_get(t, key)[1]
CountKey(t, key) == Cardinality({j \in 1..Len(t) : t[j].key = key})

\* f"{a}_{b}"
PairId(a, b) == a \o <<Underscore>> \o b

\* ------------------------------------------------- external collaborators
generate_password_hash(pw) == <<"sha256", pw>>
check_password_hash(h, pw) == h = generate_password_hash(pw)

\* the result of a handler: HTTP status, message, emitted events, payload
Result(op, cur, arg, code, msg, ev, ret) ==
    [op |-> op, cur |-> cur, arg |-> arg, code |-> code, msg |-> msg,
     ev |-> ev, ret |-> ret]

\* a rejected call leaves only its response: status code and message
Failure(op, code, msg) == Result(op, None, None, code, msg, <<>>, <<>>)

Emit(event, room, payload) == [event |-> event, room |-> room, payload |-> payload]

\* callers that pass token_required: the token names a stored user
CurrentUsers == Keys(users)

\* a transport session: not yet opened, open (with the userId it gave on
\* connect), or closed
NewSession == [st |-> "new", user |-> <<>>]
OpenSession(user_id) == [st |-> "open", user |-> user_id]
ClosedSession(user_id) == [st |-> "closed", user |-> user_id]

\* handler invocations in flight, by worker; none when every handler runs
\* from its first to its last statement without another one in between
NoThreads == <<>>

\* ------------------------------------------------------------------- Init
Init ==
    /\ users = <<>>
    /\ messages = <<>>
    /\ friend_requests = <<>>
    /\ friends = <<>>
    /\ notifications = <<>>
    /\ online_users = <<>>
    /\ typing_users = <<>>
    /\ message_status = <<>>
    /\ sessions = [s \in SessionIds |-> NewSession]
    /\ threads = NoThreads
    /\ last = Result("init", None, None, 0, "", <<>>, <<>>)

\* ------------------------------------------------------- register / login
RegisterData == [username : Usernames \cup {Missing},
                 email : Emails \cup {Missing},
                 password : Passwords \cup {Missing}]

\* the scan of lines 164-167
EmailTaken_by_username(all_users, data) ==
    \E j \in 1..Len(all_users) : all_users[j].username = data.username

EmailTaken(all_users, data) ==
    \E j \in 1..Len(all_users) : all_users[j].email = data.email

register(data) ==
    /\ UNCHANGED <<messages, friend_requests, friends, notifications,
                   online_users, typing_users, message_status, sessions, threads>>
    /\ IF Falsy(data.username) \/ Falsy(data.email) \/ Falsy(data.password)
       THEN /\ last' = Failure("register", 400, "Missing required fields!")
            /\ UNCHANGED users
       ELSE LET all_users == HashTable_get_all(users)
            IN  IF EmailTaken(all_users, data)
                THEN /\ last' = Failure("register", 409, "User already exists!")
                     /\ UNCHANGED users
                ELSE \E user_id \in UserIdPool \ Keys(users) :
                        LET new_user == [id |-> user_id,
                                         username |-> data.username,
                                         email |-> data.email,
                                         password |-> generate_password_hash(data.password),
                                         profilePic |-> ""]
                        IN  /\ users' = HashTable_insert(users, user_id, new_user)
                            /\ last' = Result("register", None, data, 201, "",
                                              <<>>, <<new_user>>)

Register == \E data \in RegisterData : register(data)

\* login's scan: the first user in get_all() order with the email
FindByEmail(all_users, email) ==
    IF \E j \in 1..Len(all_users) : all_users[j].email = email
    THEN Some(all_users[CHOOSE j \in 1..Len(all_users) :
                   /\ all_users[j].email = email
                   /\ \A i \in 1..(j - 1) : all_users[i].email # email])
    ELSE None

LoginData == [email : Emails \cup {Missing}, password : Passwords \cup {"bad", Missing}]

login(data) ==
    /\ UNCHANGED <<users, messages, friend_requests, friends, notifications,
                   online_users, typing_users, message_status, sessions, threads>>
    /\ IF Falsy(data.email) \/ Falsy(data.password)
       THEN last' = Failure("login", 400, "Missing email or password!")
       ELSE LET user == FindByEmail(HashTable_get_all(users), data.email)
            IN  IF ~Truthy(user) \/ ~check_password_hash(user[1].password, data.password)
                THEN last' = Failure("login", 401, "Invalid credentials!")
                ELSE last' = Result("login", None, data, 200, "", <<>>, user)

Login == \E data \in LoginData : login(data)

\* ---------------------------------------------------------------- profile
ProfileData == [body : {"json", "none"},
                username : {"zed", Missing},
                profilePic : {"pic", Missing},
                email : {EmailOf[1], Missing}]

\* request.get_json() returned None: "'username' in data" raises TypeError
update_profile(cur, data) ==
    /\ UNCHANGED <<messages, friend_requests, friends, notifications,
                   online_users, typing_users, message_status, sessions, threads>>
    /\ IF data.body = "none"
       THEN /\ last' = Failure("update_profile", 500, "TypeError")
            /\ UNCHANGED users
       ELSE LET current_user == Val(users, cur)
                u1 == IF data.username # Missing
                      THEN [current_user EXCEPT !.username = data.username]
                      ELSE current_user
                u2 == IF data.profilePic # Missing
                      THEN [u1 EXCEPT !.profilePic = data.profilePic]
                      ELSE u1
            IN  /\ users' = HashTable_insert(users, u2.id, u2)
                /\ last' = Result("update_profile", cur, data, 200, "", <<>>, <<u2>>)

UpdateProfile == \E cur \in CurrentUsers, data \in ProfileData : update_profile(cur, data)

\* ---------------------------------------------------------- delete_account
RECURSIVE RemoveIds(_, _)
RemoveIds(t, ids) ==
    IF ids = <<>> THEN t ELSE RemoveIds(HashTable_remove(t, Head(ids)), Tail(ids))

IdsOf(vals) == [j \in 1..Len(vals) |-> vals[j].id]

\* lines 277-308: the cascade over the five collections and presence
CascadeFriends(user_id) ==
    RemoveIds(friends, IdsOf(SelectSeq(HashTable_get_all(friends),
        LAMBDA f : f.user1Id = user_id \/ f.user2Id = user_id)))

CascadeRequests(user_id) ==
    RemoveIds(friend_requests, IdsOf(SelectSeq(HashTable_get_all(friend_requests),
        LAMBDA r : r.senderId = user_id \/ r.receiverId = user_id)))

CascadeMessageIds(user_id) ==
    IdsOf(SelectSeq(HashTable_get_all(messages),
        LAMBDA m : m.senderId = user_id \/ m.receiverId = user_id))

CascadeNotifications(user_id) ==
    RemoveIds(notifications, IdsOf(SelectSeq(HashTable_get_all(notifications),
        LAMBDA n : n.receiverId = user_id)))

DictDel(d, k) == [x \in (DOMAIN d) \ {k} |-> d[x]]

\* "for request in all_requests" (line 286) makes the name request local to
\* delete_account, so "request.get_json()" (line 265) reads an unbound local
delete_account_request_is_local == TRUE

DeleteData == [password : Passwords \cup {"bad", Missing}]

delete_account(cur, data) ==
    IF delete_account_request_is_local
    THEN /\ last' = Failure("delete_account", 500, "UnboundLocalError")
         /\ UNCHANGED <<users, messages, friend_requests, friends, notifications,
                        online_users, typing_users, message_status, sessions, threads>>
    ELSE LET current_user == Val(users, cur) IN
         IF Falsy(data.password)
         THEN /\ last' = Failure("delete_account", 400, "Password is required!")
              /\ UNCHANGED <<users, messages, friend_requests, friends, notifications,
                             online_users, typing_users, message_status, sessions, threads>>
         ELSE IF ~check_password_hash(current_user.password, data.password)
         THEN /\ last' = Failure("delete_account", 401, "Password is incorrect!")
              /\ UNCHANGED <<users, messages, friend_requests, friends, notifications,
                             online_users, typing_users, message_status, sessions, threads>>
         ELSE /\ friends' = CascadeFriends(cur)
              /\ friend_requests' = CascadeRequests(cur)
              /\ messages' = RemoveIds(messages, CascadeMessageIds(cur))
              /\ message_status' = RemoveIds(message_status, CascadeMessageIds(cur))
              /\ notifications' = CascadeNotifications(cur)
              /\ online_users' = IF cur \in DOMAIN online_users
                                 THEN DictDel(online_users, cur) ELSE online_users
              /\ users' = HashTable_remove(users, cur)
              /\ last' = Result("delete_account", cur, data, 200,
                                "Account deleted successfully!", <<>>, <<>>)
              /\ UNCHANGED <<typing_users, sessions, threads>>

DeleteAccount == \E cur \in CurrentUsers, data \in DeleteData : delete_account(cur, data)

\* ------------------------------------------------------------ social graph
Online_never(u) == FALSE

\* "user_id in online_users"
Online(u) == u \in DOMAIN online_users

ReceiverIds == UserIdPool \cup {GhostId, <<>>}

\* an id generator that may hand out an id already stored
FreshNotificationIds_used(t) == NotificationIdPool

\* uuid.uuid4() for a notification: an id no stored notification has (the
\* least free one of the pool stands for all of them)
FreshNotificationIds(t) ==
    LET free == NotificationIdPool \ Keys(t)
    IN  {id \in free : \A other \in free : id[1] <= other[1]}

\* lines 370-371: the request keyed sender_receiver, if any
existing_request_either(cur, receiver_id) ==
    IF Has(friend_requests, PairId(cur, receiver_id))
    THEN HashTable_get(friend_requests, PairId(cur, receiver_id))
    ELSE HashTable_get(friend_requests, PairId(receiver_id, cur))

existing_request(cur, receiver_id) ==
    HashTable_get(friend_requests, PairId(cur, receiver_id))

send_friend_request(cur, receiver_id) ==
    LET current_user == Val(users, cur)
        request_id == PairId(cur, receiver_id)
        friendship_id == PairId(cur, receiver_id)
        friendship_id_reverse == PairId(receiver_id, cur)
        Fail(code, msg) ==
            /\ last' = Failure("send_friend_request", code, msg)
            /\ UNCHANGED <<friend_requests, notifications>>
    IN
    /\ UNCHANGED <<users, messages, friends, online_users, typing_users,
                   message_status, sessions, threads>>
    /\ IF FalsyId(receiver_id) THEN Fail(400, "Missing receiver ID!")
       ELSE IF ~Has(users, receiver_id) THEN Fail(404, "Receiver not found!")
       ELSE IF Truthy(existing_request(cur, receiver_id))
            THEN Fail(409, "Friend request already sent!")
       ELSE IF Has(friends, friendship_id) \/ Has(friends, friendship_id_reverse)
            THEN Fail(409, "Already friends!")
       ELSE \E notification_id \in FreshNotificationIds(notifications) :
            LET new_request == [id |-> request_id, senderId |-> cur,
                                receiverId |-> receiver_id, status |-> "pending"]
                new_notification ==
                    [id |-> notification_id, type |-> "friend_request",
                     senderId |-> cur, senderName |-> current_user.username,
                     receiverId |-> receiver_id,
                     content |-> <<current_user.username, "sent you a friend request">>,
                     read |-> FALSE]
                ev == IF Online(receiver_id)
                      THEN <<Emit("friend_request", online_users[receiver_id], cur),
                             Emit("notification", online_users[receiver_id], new_notification)>>
                      ELSE <<>>
            IN  /\ friend_requests' = HashTable_insert(friend_requests, request_id, new_request)
                /\ notifications' = HashTable_insert(notifications, notification_id,
                                                     new_notification)
                /\ last' = Result("send_friend_request", cur, receiver_id, 201,
                                  "Friend request sent successfully!", ev, <<>>)

SendFriendRequest ==
    \E cur \in CurrentUsers, receiver_id \in ReceiverIds :
        /\ send_friend_request(cur, receiver_id)
        /\ Len(friend_requests') + Len(friends) <= MaxEdges

accept_friend_request(cur, user_id) ==
    LET current_user == Val(users, cur)
        request_id == PairId(user_id, cur)
        friendship_id == PairId(cur, user_id)
        Fail(code, msg) ==
            /\ last' = Failure("accept_friend_request", code, msg)
            /\ UNCHANGED <<friend_requests, friends, notifications>>
    IN
    /\ UNCHANGED <<users, messages, online_users, typing_users, message_status, sessions, threads>>
    /\ IF ~Has(friend_requests, request_id) THEN Fail(404, "Friend request not found!")
       ELSE IF ~Has(users, user_id) THEN Fail(404, "User not found!")
       ELSE \E notification_id1 \in FreshNotificationIds(notifications) :
            LET sender == Val(users, user_id)
                new_friendship == [id |-> friendship_id, user1Id |-> cur, user2Id |-> user_id]
                new_notification1 ==
                    [id |-> notification_id1, type |-> "system", receiverId |-> cur,
                     content |-> <<"You are now friends with", sender.username>>,
                     read |-> FALSE]
                notifications1 == HashTable_insert(notifications, notification_id1,
                                                   new_notification1)
            IN  \E notification_id2 \in FreshNotificationIds(notifications1) :
                LET new_notification2 ==
                        [id |-> notification_id2, type |-> "system", receiverId |-> user_id,
                         content |-> <<current_user.username, "accepted your friend request">>,
                         read |-> FALSE]
                    ev == IF Online(user_id)
                          THEN <<Emit("notification", online_users[user_id], new_notification2)>>
                          ELSE <<>>
                IN  /\ friends' = HashTable_insert(friends, friendship_id, new_friendship)
                    /\ friend_requests' = HashTable_remove(friend_requests, request_id)
                    /\ notifications' = HashTable_insert(notifications1, notification_id2,
                                                         new_notification2)
                    /\ last' = Result("accept_friend_request", cur, user_id, 200, "", ev,
                                      <<[id |-> user_id, username |-> sender.username,
                                         status |-> IF Online(user_id) THEN "online"
                                                    ELSE "offline"]>>)

PathIds == UserIdPool \cup {GhostId}

AcceptFriendRequest ==
    \E cur \in CurrentUsers, user_id \in PathIds : accept_friend_request(cur, user_id)

reject_friend_request(cur, user_id) ==
    LET request_id == PairId(user_id, cur) IN
    /\ UNCHANGED <<users, messages, friends, notifications, online_users,
                   typing_users, message_status, sessions, threads>>
    /\ IF ~Has(friend_requests, request_id)
       THEN /\ last' = Failure("reject_friend_request", 404, "Friend request not found!")
            /\ UNCHANGED friend_requests
       ELSE /\ friend_requests' = HashTable_remove(friend_requests, request_id)
            /\ last' = Result("reject_friend_request", cur, user_id, 200,
                              "Friend request rejected successfully!", <<>>, <<>>)

RejectFriendRequest ==
    \E cur \in CurrentUsers, user_id \in PathIds : reject_friend_request(cur, user_id)

\* get_friends: the list a caller receives (ids of the resolved friends)
RECURSIVE FriendsOf(_, _)
FriendsOf(all_friendships, u) ==
    IF all_friendships = <<>> THEN <<>>
    ELSE LET friendship == Head(all_friendships)
             rest == FriendsOf(Tail(all_friendships), u)
         IN  IF friendship.user1Id = u \/ friendship.user2Id = u
             THEN LET friend_id == IF friendship.user1Id = u THEN friendship.user2Id
                                   ELSE friendship.user1Id
                  IN  IF Has(users, friend_id)
                      THEN <<[id |-> friend_id,
                              username |-> Val(users, friend_id).username,
                              status |-> IF Online(friend_id) THEN "online" ELSE "offline"]>>
                           \o rest
                      ELSE rest
             ELSE rest

listFriends(u) == FriendsOf(HashTable_get_all(friends), u)
ListedFriendIds(u) == {listFriends(u)[j].id : j \in 1..Len(listFriends(u))}

get_friends(cur) ==
    /\ UNCHANGED <<users, messages, friend_requests, friends, notifications,
                   online_users, typing_users, message_status, sessions, threads>>
    /\ last' = Result("get_friends", cur, None, 200, "", <<>>, listFriends(cur))

GetFriends == \E cur \in CurrentUsers : get_friends(cur)

remove_friend(cur, user_id) ==
    LET friendship_id == PairId(cur, user_id)
        friendship_id_reverse == PairId(user_id, cur)
        friendship == IF Truthy(HashTable_get(friends, friendship_id))
                      THEN HashTable_get(friends, friendship_id)
                      ELSE HashTable_get(friends, friendship_id_reverse)
    IN
    /\ UNCHANGED <<users, messages, friend_requests, notifications, online_users,
                   typing_users, message_status, sessions, threads>>
    /\ IF ~Truthy(friendship)
       THEN /\ last' = Failure("remove_friend", 404, "Friendship not found!")
            /\ UNCHANGED friends
       ELSE /\ friends' = IF friendship_id = friendship[1].id
                          THEN HashTable_remove(friends, friendship_id)
                          ELSE HashTable_remove(friends, friendship_id_reverse)
            /\ last' = Result("remove_friend", cur, user_id, 200,
                              "Friend removed successfully!", <<>>, <<>>)

RemoveFriend == \E cur \in CurrentUsers, user_id \in PathIds : remove_friend(cur, user_id)

\* ----------------------------------------------------------- notifications
ListForUser_all(all_notifications, u) == all_notifications

\* the notifications whose receiverId is the caller, in get_all() order
ListForUser(all_notifications, u) ==
    SelectSeq(all_notifications, LAMBDA n : n.receiverId = u)

clear_all_notifications(cur) ==
    /\ UNCHANGED <<users, messages, friend_requests, friends, online_users,
                   typing_users, message_status, sessions, threads>>
    /\ notifications' = RemoveIds(notifications,
            IdsOf(ListForUser(HashTable_get_all(notifications), cur)))
    /\ last' = Result("clear_all_notifications", cur, None, 200,
                      "All notifications cleared!", <<>>, <<>>)

ClearAllNotifications == \E cur \in CurrentUsers : clear_all_notifications(cur)

NotificationPathIds == NotificationIdPool

not_own_notification_never(notification, cur) == FALSE

\* lines 757 and 785: the notification is addressed to somebody else
not_own_notification(notification, cur) == notification.receiverId # cur

mark_notification_as_read(cur, notification_id) ==
    LET notification == HashTable_get(notifications, notification_id) IN
    /\ UNCHANGED <<users, messages, friend_requests, friends, online_users,
                   typing_users, message_status, sessions, threads>>
    /\ IF ~Truthy(notification)
       THEN /\ last' = Failure("mark_notification_as_read", 404, "Notification not found!")
            /\ UNCHANGED notifications
       ELSE IF not_own_notification(notification[1], cur)
       THEN /\ last' = Failure("mark_notification_as_read", 403,
                               "You can only mark your own notifications as read!")
            /\ UNCHANGED notifications
       ELSE /\ notifications' = HashTable_insert(notifications, notification_id,
                                    [notification[1] EXCEPT !.read = TRUE])
            /\ last' = Result("mark_notification_as_read", cur, notification_id, 200,
                              "Notification marked as read!", <<>>, <<>>)

MarkNotificationAsRead ==
    \E cur \in CurrentUsers, notification_id \in NotificationPathIds :
        mark_notification_as_read(cur, notification_id)

\* the loop of lines 770-773 over the ids of the caller's notifications
RECURSIVE MarkReadIds(_, _)
MarkReadIds(t, ids) ==
    IF ids = <<>> THEN t
    ELSE MarkReadIds(HashTable_insert(t, Head(ids),
                        [Val(t, Head(ids)) EXCEPT !.read = TRUE]),
                     Tail(ids))

mark_all_notifications_as_read(cur) ==
    /\ UNCHANGED <<users, messages, friend_requests, friends, online_users,
                   typing_users, message_status, sessions, threads>>
    /\ notifications' = MarkReadIds(notifications,
            IdsOf(ListForUser(HashTable_get_all(notifications), cur)))
    /\ last' = Result("mark_all_notifications_as_read", cur, None, 200,
                      "All notifications marked as read!", <<>>, <<>>)

MarkAllNotificationsAsRead == \E cur \in CurrentUsers : mark_all_notifications_as_read(cur)

delete_notification(cur, notification_id) ==
    LET notification == HashTable_get(notifications, notification_id) IN
    /\ UNCHANGED <<users, messages, friend_requests, friends, online_users,
                   typing_users, message_status, sessions, threads>>
    /\ IF ~Truthy(notification)
       THEN /\ last' = Failure("delete_notification", 404, "Notification not found!")
            /\ UNCHANGED notifications
       ELSE IF not_own_notification(notification[1], cur)
       THEN /\ last' = Failure("delete_notification", 403,
                               "You can only delete your own notifications!")
            /\ UNCHANGED notifications
       ELSE /\ notifications' = HashTable_remove(notifications, notification_id)
            /\ last' = Result("delete_notification", cur, notification_id, 200,
                              "Notification deleted successfully!", <<>>, <<>>)

DeleteNotification ==
    \E cur \in CurrentUsers, notification_id \in NotificationPathIds :
        delete_notification(cur, notification_id)

\* --------------------------------------------------------------- messaging
\* datetime.now(): not before the timestamp of any stored message
MaxOf(S) == IF S = {} THEN 0 ELSE CHOOSE x \in S : \A y \in S : y <= x
Now == MaxOf({messages[j].value.timestamp : j \in 1..Len(messages)}) .. MaxTime

AreFriends(a, b) == Has(friends, PairId(a, b)) \/ Has(friends, PairId(b, a))

\* lines 586-589 (and 639-642): neither directional key is stored
not_friends_never(cur, other_id) == FALSE

not_friends(cur, other_id) ==
    ~Has(friends, PairId(cur, other_id)) /\ ~Has(friends, PairId(other_id, cur))

MessageData == [receiverId : ReceiverIds, content : Contents \cup {Missing}]

send_message(cur, data) ==
    LET current_user == Val(users, cur)
        receiver_id == data.receiverId
        Fail(code, msg) ==
            /\ last' = Failure("send_message", code, msg)
            /\ UNCHANGED <<messages, message_status, notifications>>
    IN
    /\ UNCHANGED <<users, friend_requests, friends, online_users, typing_users, sessions, threads>>
    /\ IF FalsyId(receiver_id) \/ Falsy(data.content)
       THEN Fail(400, "Missing required fields!")
       ELSE IF ~Has(users, receiver_id) THEN Fail(404, "Receiver not found!")
       ELSE IF not_friends(cur, receiver_id)
            THEN Fail(403, "You are not friends with this user!")
       ELSE \E message_id \in MessageIdPool \ Keys(messages), now \in Now,
               notification_id \in FreshNotificationIds(notifications) :
            LET new_message == [id |-> message_id, senderId |-> cur,
                                receiverId |-> receiver_id, content |-> data.content,
                                timestamp |-> now]
                status_id == message_id
                new_notification ==
                    [id |-> notification_id, type |-> "message",
                     senderId |-> cur, senderName |-> current_user.username,
                     receiverId |-> receiver_id,
                     content |-> <<"New message from", current_user.username>>,
                     read |-> FALSE]
                ev == IF Online(receiver_id)
                      THEN <<Emit("message", online_users[receiver_id], new_message),
                             Emit("notification", online_users[receiver_id], new_notification)>>
                      ELSE <<>>
            IN  /\ messages' = HashTable_insert(messages, message_id, new_message)
                /\ message_status' = HashTable_insert(message_status, status_id,
                        [id |-> status_id, messageId |-> message_id, seen |-> FALSE])
                /\ notifications' = HashTable_insert(notifications, notification_id,
                                                     new_notification)
                /\ last' = Result("send_message", cur, data, 201, "", ev, <<new_message>>)

SendMessage == \E cur \in CurrentUsers, data \in MessageData : send_message(cur, data)

\* conversation.sort(key=timestamp): Python's sort is stable
RECURSIVE SortByTimestamp(_)
SortByTimestamp(s) ==
    IF s = <<>> THEN <<>>
    ELSE LET sorted == SortByTimestamp(SubSeq(s, 1, Len(s) - 1))
             x == s[Len(s)]
         IN  SelectSeq(sorted, LAMBDA y : y.timestamp <= x.timestamp)
                 \o <<x>>
                 \o SelectSeq(sorted, LAMBDA y : y.timestamp > x.timestamp)

\* line 666: a message from the friend that is not seen yet
should_mark_any(message, friend_id, seen) == ~seen

should_mark(message, friend_id, seen) == message.senderId = friend_id /\ ~seen

\* the loop of get_messages (lines 649-680) over the snapshot all_messages
RECURSIVE GetMessagesLoop(_, _, _, _)
GetMessagesLoop(all_messages, cur, friend_id, acc) ==
    IF all_messages = <<>> THEN acc
    ELSE LET message == Head(all_messages)
             rest == Tail(all_messages)
         IN  IF (message.senderId = cur /\ message.receiverId = friend_id)
                \/ (message.senderId = friend_id /\ message.receiverId = cur)
             THEN LET status == HashTable_get(acc.status, message.id)
                      seen == IF Truthy(status) THEN status[1].seen ELSE FALSE
                      message_with_status ==
                          [id |-> message.id, senderId |-> message.senderId,
                           receiverId |-> message.receiverId, content |-> message.content,
                           timestamp |-> message.timestamp, seen |-> seen]
                      mark == should_mark(message, friend_id, seen)
                  IN  GetMessagesLoop(rest, cur, friend_id,
                        [conversation |-> Append(acc.conversation, message_with_status),
                         status |-> IF mark
                                    THEN HashTable_insert(acc.status, message.id,
                                           [id |-> message.id, messageId |-> message.id,
                                            seen |-> TRUE])
                                    ELSE acc.status,
                         ev |-> IF mark /\ Online(friend_id)
                                THEN Append(acc.ev, Emit("message_seen",
                                               online_users[friend_id], message.id))
                                ELSE acc.ev])
             ELSE GetMessagesLoop(rest, cur, friend_id, acc)

get_messages(cur, friend_id) ==
    /\ UNCHANGED <<users, messages, friend_requests, friends, notifications,
                   online_users, typing_users, sessions, threads>>
    /\ IF not_friends(cur, friend_id)
       THEN /\ last' = Failure("get_messages", 403, "You are not friends with this user!")
            /\ UNCHANGED message_status
       ELSE LET r == GetMessagesLoop(HashTable_get_all(messages), cur, friend_id,
                        [conversation |-> <<>>, status |-> message_status, ev |-> <<>>])
            IN  /\ message_status' = r.status
                /\ last' = Result("get_messages", cur, friend_id, 200, "", r.ev,
                                  SortByTimestamp(r.conversation))

GetMessages == \E cur \in CurrentUsers, friend_id \in PathIds : get_messages(cur, friend_id)

MessagePathIds == MessageIdPool

\* lines 700-701: "Also remove message status"
status_after_delete_kept(message_id) == message_status

status_after_delete(message_id) == HashTable_remove(message_status, message_id)

delete_message(cur, message_id) ==
    LET message == HashTable_get(messages, message_id) IN
    /\ UNCHANGED <<users, friend_requests, friends, notifications, online_users,
                   typing_users, sessions, threads>>
    /\ IF ~Truthy(message)
       THEN /\ last' = Failure("delete_message", 404, "Message not found!")
            /\ UNCHANGED <<messages, message_status>>
       ELSE IF message[1].senderId # cur
       THEN /\ last' = Failure("delete_message", 403, "You can only delete your own messages!")
            /\ UNCHANGED <<messages, message_status>>
       ELSE /\ messages' = HashTable_remove(messages, message_id)
            /\ message_status' = status_after_delete(message_id)
            /\ last' = Result("delete_message", cur, message_id, 200,
                              "Message deleted successfully!", <<>>, <<>>)

DeleteMessage ==
    \E cur \in CurrentUsers, message_id \in MessagePathIds : delete_message(cur, message_id)

mark_message_as_seen(cur, message_id) ==
    LET message == HashTable_get(messages, message_id) IN
    /\ UNCHANGED <<users, messages, friend_requests, friends, notifications,
                   online_users, typing_users, sessions, threads>>
    /\ IF ~Truthy(message)
       THEN /\ last' = Failure("mark_message_as_seen", 404, "Message not found!")
            /\ UNCHANGED message_status
       ELSE IF message[1].receiverId # cur
       THEN /\ last' = Failure("mark_message_as_seen", 403, "You can only mark messages sent to you as seen!")
            /\ UNCHANGED message_status
       ELSE /\ message_status' = HashTable_insert(message_status, message_id,
                    [id |-> message_id, messageId |-> message_id, seen |-> TRUE])
            /\ last' = Result("mark_message_as_seen", cur, message_id, 200,
                              "Message marked as seen!",
                              IF Online(message[1].senderId)
                              THEN <<Emit("message_seen",
                                          online_users[message[1].senderId], message_id)>>
                              ELSE <<>>,
                              <<>>)

MarkMessageAsSeen ==
    \E cur \in CurrentUsers, message_id \in MessagePathIds : mark_message_as_seen(cur, message_id)

\* ---------------------------------------------------------------- presence
\* the friend_status fan-out of handle_connect / handle_disconnect
RECURSIVE FriendStatusEvents(_, _, _, _)
FriendStatusEvents(all_friendships, user_id, status, online) ==
    IF all_friendships = <<>> THEN <<>>
    ELSE LET friendship == Head(all_friendships)
             rest == FriendStatusEvents(Tail(all_friendships), user_id, status, online)
             To(friend_id) ==
                 IF friend_id \in DOMAIN online
                 THEN <<Emit("friend_status", online[friend_id],
                             [userId |-> user_id, status |-> status])>>
                 ELSE <<>>
         IN  IF friendship.user1Id = user_id THEN To(friendship.user2Id) \o rest
             ELSE IF friendship.user2Id = user_id THEN To(friendship.user1Id) \o rest
             ELSE rest

DictSet(d, k, v) == [x \in (DOMAIN d) \cup {k} |-> IF x = k THEN v ELSE d[x]]

\* the transport opens each session once; userId is the query parameter
ConnectIds == UserIdPool \cup {<<>>}

handle_connect(user_id, sid) ==
    /\ sessions[sid].st = "new"
    /\ sessions' = [sessions EXCEPT ![sid] = OpenSession(user_id)]
    /\ UNCHANGED <<users, messages, friend_requests, friends, notifications,
                   typing_users, message_status, threads>>
    /\ IF ~FalsyId(user_id)
       THEN LET online == DictSet(online_users, user_id, sid)
            IN  /\ online_users' = online
                /\ last' = Result("connect", user_id, sid, 0, "",
                                  FriendStatusEvents(HashTable_get_all(friends), user_id,
                                                     "online", online),
                                  <<>>)
       ELSE /\ UNCHANGED online_users
            /\ last' = Result("connect", user_id, sid, 0, "", <<>>, <<>>)

HandleConnect == \E user_id \in ConnectIds, sid \in SessionIds : handle_connect(user_id, sid)

\* lines 824-825: the entries of online_users whose session id is the
\* closing one (the loop takes the first and breaks)
SessionOwner_by_user(online, sid) == {sessions[sid].user} \cap DOMAIN online

SessionOwner(online, sid) == {u \in DOMAIN online : online[u] = sid}

handle_disconnect(sid) ==
    /\ sessions[sid].st = "open"
    /\ sessions' = [sessions EXCEPT ![sid] = ClosedSession(sessions[sid].user)]
    /\ UNCHANGED <<users, messages, friend_requests, friends, notifications,
                   typing_users, message_status, threads>>
    /\ IF SessionOwner(online_users, sid) # {}
       THEN \E user_id \in SessionOwner(online_users, sid) :
            LET online == DictDel(online_users, user_id)
            IN  /\ online_users' = online
                /\ last' = Result("disconnect", user_id, sid, 0, "",
                                  FriendStatusEvents(HashTable_get_all(friends), user_id,
                                                     "offline", online),
                                  <<>>)
       ELSE /\ UNCHANGED online_users
            /\ last' = Result("disconnect", None, sid, 0, "", <<>>, <<>>)

HandleDisconnect == \E sid \in SessionIds : handle_disconnect(sid)

\* ------------------------------------------------------- transport events
\* a socket event arrives only from a client whose session is open
Connected == \E sid \in SessionIds : sessions[sid].st = "open"

\* the payload of a client's send_message event: a dict with or without the
\* key receiverId
MessageEvents == [body : {"json", "nokey"},
                  senderId : UserIdPool,
                  receiverId : UserIdPool \cup {GhostId},
                  content : Contents]

\* message['receiverId'] raises KeyError when the key is absent
handle_send_message(message) ==
    /\ Connected
    /\ UNCHANGED <<users, messages, friend_requests, friends, notifications,
                   online_users, typing_users, message_status, sessions, threads>>
    /\ IF message.body = "nokey"
       THEN last' = Failure("handle_send_message", 500, "KeyError")
       ELSE last' = Result("handle_send_message", message.senderId, message, 0, "",
                           IF Online(message.receiverId)
                           THEN <<Emit("message", online_users[message.receiverId], message)>>
                           ELSE <<>>,
                           <<>>)

HandleSendMessage == \E message \in MessageEvents : handle_send_message(message)

\* the payload of typing / stop_typing: a dict (an absent id reads as None,
\* the empty id here) or no dict at all
TypingData == [body : {"json", "none"},
               userId : UserIdPool \cup {<<>>},
               targetId : UserIdPool \cup {<<>>}]

\* typing_users: user id -> (target id -> timestamp)
HasTyping(typing, u, t) == u \in DOMAIN typing /\ t \in DOMAIN typing[u]

\* datetime.now().timestamp(): not before any stored typing timestamp
TypingNow ==
    MaxOf(UNION {{typing_users[u][t] : t \in DOMAIN typing_users[u]} :
                    u \in DOMAIN typing_users}) .. MaxTypingTime

UserTyping(user_id, target_id, is_typing) ==
    IF Online(target_id)
    THEN <<Emit("user_typing", online_users[target_id],
                [userId |-> user_id, isTyping |-> is_typing])>>
    ELSE <<>>

\* data.get(...) on a payload that is no dict raises AttributeError
handle_typing(data) ==
    LET user_id == data.userId
        target_id == data.targetId
    IN
    /\ Connected
    /\ UNCHANGED <<users, messages, friend_requests, friends, notifications,
                   online_users, message_status, sessions, threads>>
    /\ IF data.body = "none"
       THEN /\ last' = Failure("handle_typing", 500, "AttributeError")
            /\ UNCHANGED typing_users
       ELSE IF FalsyId(user_id) \/ FalsyId(target_id)
       THEN /\ last' = Result("handle_typing", user_id, target_id, 0, "", <<>>, <<>>)
            /\ UNCHANGED typing_users
       ELSE \E now \in TypingNow :
            LET own == IF user_id \in DOMAIN typing_users
                       THEN typing_users[user_id] ELSE <<>>
            IN  /\ typing_users' = DictSet(typing_users, user_id,
                                           DictSet(own, target_id, now))
                /\ last' = Result("handle_typing", user_id, target_id, 0, "",
                                  UserTyping(user_id, target_id, TRUE), <<now>>)

HandleTyping == \E data \in TypingData : handle_typing(data)

stop_typing_entry_kept(user_id, target_id) == typing_users

\* lines 878-879: the entry, if there is one, is deleted
stop_typing_entry(user_id, target_id) ==
    IF HasTyping(typing_users, user_id, target_id)
    THEN DictSet(typing_users, user_id, DictDel(typing_users[user_id], target_id))
    ELSE typing_users

handle_stop_typing(data) ==
    LET user_id == data.userId
        target_id == data.targetId
    IN
    /\ Connected
    /\ UNCHANGED <<users, messages, friend_requests, friends, notifications,
                   online_users, message_status, sessions, threads>>
    /\ IF data.body = "none"
       THEN /\ last' = Failure("handle_stop_typing", 500, "AttributeError")
            /\ UNCHANGED typing_users
       ELSE IF FalsyId(user_id) \/ FalsyId(target_id)
       THEN /\ last' = Result("handle_stop_typing", user_id, target_id, 0, "", <<>>, <<>>)
            /\ UNCHANGED typing_users
       ELSE /\ typing_users' = stop_typing_entry(user_id, target_id)
            /\ last' = Result("handle_stop_typing", user_id, target_id, 0, "",
                              UserTyping(user_id, target_id, FALSE), <<>>)

HandleStopTyping == \E data \in TypingData : handle_stop_typing(data)

\* ------------------------------------------------- handlers, step by step
\* The server takes each request and each socket event on a worker of its
\* own and the handlers hold no lock: between two statements of one handler
\* a statement of another can run.  threads[t] is the position and the
\* locals of the invocation on worker t.
ThreadIds == 1..MaxThreads
Idle == [pc |-> "idle"]
AllIdle == [t \in ThreadIds |-> Idle]

Others == <<users, messages, friend_requests, friends, notifications,
            typing_users, message_status>>

\* handle_disconnect, line 824: list(online_users.items()) is taken
disconnect_snapshot(t, sid) ==
    /\ threads[t] = Idle
    /\ sessions[sid].st = "open"
    /\ sessions' = [sessions EXCEPT ![sid] = ClosedSession(sessions[sid].user)]
    /\ threads' = [threads EXCEPT ![t] = [pc |-> "disconnect_scan", sid |-> sid,
                                          items |-> online_users]]
    /\ UNCHANGED <<online_users, last>>
    /\ UNCHANGED Others

DisconnectSnapshot == \E t \in ThreadIds, sid \in SessionIds : disconnect_snapshot(t, sid)

\* handle_disconnect, lines 824-839: the loop over the items taken; the del
\* of line 826 names the user, whatever session the entry holds by now
disconnect_scan(t) ==
    /\ threads[t].pc = "disconnect_scan"
    /\ threads' = [threads EXCEPT ![t] = Idle]
    /\ UNCHANGED sessions
    /\ UNCHANGED Others
    /\ LET sid == threads[t].sid
           owners == SessionOwner(threads[t].items, sid)
       IN  IF owners # {}
           THEN \E user_id \in owners :
                IF user_id \in DOMAIN online_users
                THEN LET online == DictDel(online_users, user_id)
                     IN  /\ online_users' = online
                         /\ last' = Result("disconnect", user_id, sid, 0, "",
                                FriendStatusEvents(HashTable_get_all(friends), user_id,
                                                   "offline", online),
                                <<>>)
                ELSE /\ UNCHANGED online_users
                     /\ last' = Failure("disconnect", 500, "KeyError")
           ELSE /\ UNCHANGED online_users
                /\ last' = Result("disconnect", None, sid, 0, "", <<>>, <<>>)

DisconnectScan == \E t \in ThreadIds : disconnect_scan(t)

\* ---- the message handlers, one store access after the other
StoresLeftByMessaging == <<users, friend_requests, friends, online_users,
                           typing_users, sessions>>

Finish(t) == threads' = [threads EXCEPT ![t] = Idle]

\* ids that an invocation in flight still holds
HeldMessageIds ==
    {threads[t].message_id : t \in {x \in ThreadIds : "message_id" \in DOMAIN threads[x]}}
        \cup UNION {{threads[t].rest[j].id : j \in 1..Len(threads[t].rest)} :
                        t \in {x \in ThreadIds : "rest" \in DOMAIN threads[x]}}
HeldNotificationIds ==
    {threads[t].notification_id :
        t \in {x \in ThreadIds : "notification_id" \in DOMAIN threads[x]}}

\* uuid.uuid4(): an id that nothing stored or in flight carries (the least
\* free one of the pool stands for all of them)
FreshMessageIds ==
    LET free == MessageIdPool \ (Keys(messages) \cup Keys(message_status)
                                    \cup HeldMessageIds)
    IN  {id \in free : \A other \in free : id[1] <= other[1]}
FreshNotificationIdsInFlight ==
    NotificationIdPool \ (Keys(notifications) \cup HeldNotificationIds)

\* send_message, lines 574-603: the checks, then messages.insert
send_message_store(t, cur, data) ==
    LET receiver_id == data.receiverId
        Fail(code, msg) ==
            /\ last' = Failure("send_message", code, msg)
            /\ UNCHANGED <<messages, threads>>
    IN
    /\ threads[t] = Idle
    /\ UNCHANGED StoresLeftByMessaging
    /\ UNCHANGED <<message_status, notifications>>
    /\ IF FalsyId(receiver_id) \/ Falsy(data.content)
       THEN Fail(400, "Missing required fields!")
       ELSE IF ~Has(users, receiver_id) THEN Fail(404, "Receiver not found!")
       ELSE IF not_friends(cur, receiver_id)
            THEN Fail(403, "You are not friends with this user!")
       ELSE \E message_id \in FreshMessageIds, now \in Now,
               notification_id \in FreshNotificationIdsInFlight :
            LET new_message == [id |-> message_id, senderId |-> cur,
                                receiverId |-> receiver_id, content |-> data.content,
                                timestamp |-> now]
            IN  /\ messages' = HashTable_insert(messages, message_id, new_message)
                /\ threads' = [threads EXCEPT ![t] =
                        [pc |-> "send_message_status", cur |-> cur, data |-> data,
                         message_id |-> message_id, new_message |-> new_message,
                         notification_id |-> notification_id]]
                /\ UNCHANGED last

SendMessageStore ==
    \E t \in ThreadIds, cur \in CurrentUsers, data \in MessageData :
        send_message_store(t, cur, data)

\* send_message, lines 605-633: message_status.insert, the notification, the
\* events and the response
send_message_status(t) ==
    /\ threads[t].pc = "send_message_status"
    /\ Finish(t)
    /\ UNCHANGED StoresLeftByMessaging
    /\ UNCHANGED messages
    /\ LET th == threads[t]
           current_user == Val(users, th.cur)
           receiver_id == th.data.receiverId
           new_notification ==
               [id |-> th.notification_id, type |-> "message",
                senderId |-> th.cur, senderName |-> current_user.username,
                receiverId |-> receiver_id,
                content |-> <<"New message from", current_user.username>>,
                read |-> FALSE]
           ev == IF Online(receiver_id)
                 THEN <<Emit("message", online_users[receiver_id], th.new_message),
                        Emit("notification", online_users[receiver_id], new_notification)>>
                 ELSE <<>>
       IN  /\ message_status' = HashTable_insert(message_status, th.message_id,
                   [id |-> th.message_id, messageId |-> th.message_id, seen |-> FALSE])
           /\ notifications' = HashTable_insert(notifications, th.notification_id,
                                                new_notification)
           /\ last' = Result("send_message", th.cur, th.data, 201, "", ev,
                             <<th.new_message>>)

SendMessageStatus == \E t \in ThreadIds : send_message_status(t)

\* delete_message, lines 690-698: the checks, then messages.remove
delete_message_remove(t, cur, message_id) ==
    LET message == HashTable_get(messages, message_id) IN
    /\ threads[t] = Idle
    /\ UNCHANGED StoresLeftByMessaging
    /\ UNCHANGED <<message_status, notifications>>
    /\ IF ~Truthy(message)
       THEN /\ last' = Failure("delete_message", 404, "Message not found!")
            /\ UNCHANGED <<messages, threads>>
       ELSE IF message[1].senderId # cur
       THEN /\ last' = Failure("delete_message", 403, "You can only delete your own messages!")
            /\ UNCHANGED <<messages, threads>>
       ELSE /\ messages' = HashTable_remove(messages, message_id)
            /\ threads' = [threads EXCEPT ![t] =
                    [pc |-> "delete_message_status", cur |-> cur,
                     message_id |-> message_id]]
            /\ UNCHANGED last

DeleteMessageRemove ==
    \E t \in ThreadIds, cur \in CurrentUsers, message_id \in MessagePathIds :
        delete_message_remove(t, cur, message_id)

\* delete_message, lines 700-703: message_status.remove and the response
delete_message_status(t) ==
    /\ threads[t].pc = "delete_message_status"
    /\ Finish(t)
    /\ UNCHANGED StoresLeftByMessaging
    /\ UNCHANGED <<messages, notifications>>
    /\ message_status' = HashTable_remove(message_status, threads[t].message_id)
    /\ last' = Result("delete_message", threads[t].cur, threads[t].message_id, 200,
                      "Message deleted successfully!", <<>>, <<>>)

DeleteMessageStatus == \E t \in ThreadIds : delete_message_status(t)

\* mark_message_as_seen, lines 708-714: messages.get and the checks
mark_seen_check(t, cur, message_id) ==
    LET message == HashTable_get(messages, message_id) IN
    /\ threads[t] = Idle
    /\ UNCHANGED StoresLeftByMessaging
    /\ UNCHANGED <<messages, message_status, notifications>>
    /\ IF ~Truthy(message)
       THEN /\ last' = Failure("mark_message_as_seen", 404, "Message not found!")
            /\ UNCHANGED threads
       ELSE IF message[1].receiverId # cur
       THEN /\ last' = Failure("mark_message_as_seen", 403, "You can only mark messages sent to you as seen!")
            /\ UNCHANGED threads
       ELSE /\ threads' = [threads EXCEPT ![t] =
                    [pc |-> "mark_seen_insert", cur |-> cur, message_id |-> message_id,
                     senderId |-> message[1].senderId]]
            /\ UNCHANGED last

MarkSeenCheck ==
    \E t \in ThreadIds, cur \in CurrentUsers, message_id \in MessagePathIds :
        mark_seen_check(t, cur, message_id)

\* mark_message_as_seen, lines 716-732: message_status.insert, the event and
\* the response
mark_seen_insert(t) ==
    /\ threads[t].pc = "mark_seen_insert"
    /\ Finish(t)
    /\ UNCHANGED StoresLeftByMessaging
    /\ UNCHANGED <<messages, notifications>>
    /\ LET th == threads[t]
       IN  /\ message_status' = HashTable_insert(message_status, th.message_id,
                   [id |-> th.message_id, messageId |-> th.message_id, seen |-> TRUE])
           /\ last' = Result("mark_message_as_seen", th.cur, th.message_id, 200,
                             "Message marked as seen!",
                             IF Online(th.senderId)
                             THEN <<Emit("message_seen", online_users[th.senderId],
                                         th.message_id)>>
                             ELSE <<>>,
                             <<>>)

MarkSeenInsert == \E t \in ThreadIds : mark_seen_insert(t)

\* get_messages, lines 639-647: the friendship check and messages.get_all()
get_messages_snapshot(t, cur, friend_id) ==
    /\ threads[t] = Idle
    /\ UNCHANGED StoresLeftByMessaging
    /\ UNCHANGED <<messages, message_status, notifications>>
    /\ IF not_friends(cur, friend_id)
       THEN /\ last' = Failure("get_messages", 403, "You are not friends with this user!")
            /\ UNCHANGED threads
       ELSE /\ threads' = [threads EXCEPT ![t] =
                    [pc |-> "get_messages_loop", cur |-> cur, friend_id |-> friend_id,
                     rest |-> HashTable_get_all(messages),
                     conversation |-> <<>>, ev |-> <<>>]]
            /\ UNCHANGED last

GetMessagesSnapshot ==
    \E t \in ThreadIds, cur \in CurrentUsers, friend_id \in PathIds :
        get_messages_snapshot(t, cur, friend_id)

\* get_messages, lines 649-685: one pass of the loop body over the next
\* message of the list taken, or, at its end, the sort and the response
get_messages_iter(t) ==
    /\ threads[t].pc = "get_messages_loop"
    /\ UNCHANGED StoresLeftByMessaging
    /\ UNCHANGED <<messages, notifications>>
    /\ LET th == threads[t]
       IN  IF th.rest = <<>>
           THEN /\ Finish(t)
                /\ UNCHANGED message_status
                /\ last' = Result("get_messages", th.cur, th.friend_id, 200, "", th.ev,
                                  SortByTimestamp(th.conversation))
           ELSE LET r == GetMessagesLoop(<<Head(th.rest)>>, th.cur, th.friend_id,
                            [conversation |-> th.conversation,
                             status |-> message_status, ev |-> th.ev])
                IN  /\ message_status' = r.status
                    /\ threads' = [threads EXCEPT ![t].rest = Tail(th.rest),
                                                  ![t].conversation = r.conversation,
                                                  ![t].ev = r.ev]
                    /\ UNCHANGED last

GetMessagesIter == \E t \in ThreadIds : get_messages_iter(t)

\* ---- register, the check and the insert apart
\* register, lines 158-167: the field check and the scan for the email
register_scan(t, data) ==
    /\ threads[t] = Idle
    /\ UNCHANGED <<users, messages, friend_requests, friends, notifications,
                   online_users, typing_users, message_status, sessions>>
    /\ IF Falsy(data.username) \/ Falsy(data.email) \/ Falsy(data.password)
       THEN /\ last' = Failure("register", 400, "Missing required fields!")
            /\ UNCHANGED threads
       ELSE IF EmailTaken(HashTable_get_all(users), data)
       THEN /\ last' = Failure("register", 409, "User already exists!")
            /\ UNCHANGED threads
       ELSE /\ threads' = [threads EXCEPT ![t] = [pc |-> "register_insert", data |-> data]]
            /\ UNCHANGED last

RegisterScan == \E t \in ThreadIds, data \in RegisterData : register_scan(t, data)

\* register, lines 169-198: the new id, the hash, users.insert, the response
register_insert(t) ==
    /\ threads[t].pc = "register_insert"
    /\ Finish(t)
    /\ UNCHANGED <<messages, friend_requests, friends, notifications,
                   online_users, typing_users, message_status, sessions>>
    /\ \E user_id \in UserIdPool \ Keys(users) :
          LET data == threads[t].data
              new_user == [id |-> user_id,
                           username |-> data.username,
                           email |-> data.email,
                           password |-> generate_password_hash(data.password),
                           profilePic |-> ""]
          IN  /\ users' = HashTable_insert(users, user_id, new_user)
              /\ last' = Result("register", None, data, 201, "", <<>>, <<new_user>>)

RegisterInsert == \E t \in ThreadIds : register_insert(t)

\* ------------------------------------------------- the HashTable by itself
\* One HashTable instance (the one named messages) driven directly through
\* insert, get and remove. StoreKeys holds two keys of one bucket ("ab" and
\* "ba" have the same character sum) and a key of another bucket; StoreValues
\* holds the empty string and two other strings.
StoreKeys == {<<1, 2>>, <<2, 1>>, <<4>>}
StoreValues == {<<>>, <<7>>, <<8>>}

store_insert(key, value) ==
    /\ messages' = HashTable_insert(messages, key, value)
    /\ last' = Result("HashTable.insert", None, [key |-> key, value |-> value],
                      0, "", <<>>, value)
    /\ UNCHANGED <<users, friend_requests, friends, notifications, online_users,
                   typing_users, message_status, sessions, threads>>

StoreInsert ==
    \E key \in StoreKeys, value \in StoreValues :
        /\ store_insert(key, value)
        /\ Len(messages') <= MaxNodes

store_get(key) ==
    /\ last' = Result("HashTable.get", None, [key |-> key], 0, "", <<>>,
                      HashTable_get(messages, key))
    /\ UNCHANGED <<users, messages, friend_requests, friends, notifications,
                   online_users, typing_users, message_status, sessions, threads>>

StoreGet == \E key \in StoreKeys : store_get(key)

store_remove(key) ==
    /\ messages' = HashTable_remove(messages, key)
    /\ last' = Result("HashTable.remove", None, [key |-> key], 0, "", <<>>,
                      HashTable_remove_found(messages, key))
    /\ UNCHANGED <<users, friend_requests, friends, notifications, online_users,
                   typing_users, message_status, sessions, threads>>

StoreRemove == \E key \in StoreKeys : store_remove(key)

\* ------------------------------------------------------------ specification
Next ==
    \/ Register
    \/ Login
    \/ UpdateProfile
    \/ DeleteAccount
    \/ SendFriendRequest
    \/ AcceptFriendRequest
    \/ RejectFriendRequest
    \/ GetFriends
    \/ RemoveFriend
    \/ MarkNotificationAsRead
    \/ MarkAllNotificationsAsRead
    \/ DeleteNotification
    \/ ClearAllNotifications
    \/ SendMessage
    \/ GetMessages
    \/ DeleteMessage
    \/ MarkMessageAsSeen
    \/ HandleConnect
    \/ HandleDisconnect
    \/ HandleSendMessage
    \/ HandleTyping
    \/ HandleStopTyping

Spec == Init /\ [][Next]_vars

\* ---- identity and directory: the account handlers from the empty store
NextUsers == Register \/ Login \/ UpdateProfile \/ DeleteAccount

SpecUsers == Init /\ [][NextUsers]_vars

\* the store after MaxUsers successful register calls
RECURSIVE UsersUpTo(_)
UsersUpTo(n) ==
    IF n = 0 THEN <<>>
    ELSE HashTable_insert(UsersUpTo(n - 1), <<n>>,
            [id |-> <<n>>, username |-> NameOf[n], email |-> EmailOf[n],
             password |-> generate_password_hash("pw"), profilePic |-> ""])

\* ---- social graph: all users registered, user 1 connected on session 1
InitGraph ==
    /\ users = UsersUpTo(MaxUsers)
    /\ messages = <<>>
    /\ friend_requests = <<>>
    /\ friends = <<>>
    /\ notifications = <<>>
    /\ online_users = DictSet(<<>>, <<1>>, 1)
    /\ typing_users = <<>>
    /\ message_status = <<>>
    /\ sessions = [s \in SessionIds |-> IF s = 1 THEN OpenSession(<<1>>) ELSE NewSession]
    /\ threads = NoThreads
    /\ last = Result("init", None, None, 0, "", <<>>, <<>>)

NextGraph ==
    \/ SendFriendRequest
    \/ AcceptFriendRequest
    \/ RejectFriendRequest
    \/ RemoveFriend
    \/ ClearAllNotifications

SpecGraph == InitGraph /\ [][NextGraph]_vars

\* ---- messaging: users registered, user 1 connected on session 1, user 1 a
\* friend of themself (key 1_1) and of user 2 (key 2_1, accepted by 2)
FriendsInitMsg ==
    HashTable_insert(
        HashTable_insert(<<>>, PairId(<<1>>, <<1>>),
            [id |-> PairId(<<1>>, <<1>>), user1Id |-> <<1>>, user2Id |-> <<1>>]),
        PairId(<<2>>, <<1>>),
        [id |-> PairId(<<2>>, <<1>>), user1Id |-> <<2>>, user2Id |-> <<1>>])

InitMsg ==
    /\ users = UsersUpTo(MaxUsers)
    /\ messages = <<>>
    /\ friend_requests = <<>>
    /\ friends = FriendsInitMsg
    /\ notifications = <<>>
    /\ online_users = DictSet(<<>>, <<1>>, 1)
    /\ typing_users = <<>>
    /\ message_status = <<>>
    /\ sessions = [s \in SessionIds |-> IF s = 1 THEN OpenSession(<<1>>) ELSE NewSession]
    /\ threads = NoThreads
    /\ last = Result("init", None, None, 0, "", <<>>, <<>>)

NextMsg ==
    \/ SendMessage
    \/ GetMessages
    \/ DeleteMessage
    \/ MarkMessageAsSeen
    \/ DeleteAccount
    \/ RemoveFriend
    \/ ClearAllNotifications

SpecMsg == InitMsg /\ [][NextMsg]_vars

\* ---- presence: users registered, every two distinct users friends
RECURSIVE FriendsUpTo(_)
FriendsUpTo(n) ==
    IF n <= 1 THEN <<>>
    ELSE LET Add[k \in 0..(n - 1)] ==
                 IF k = 0 THEN FriendsUpTo(n - 1)
                 ELSE HashTable_insert(Add[k - 1], PairId(<<n>>, <<k>>),
                        [id |-> PairId(<<n>>, <<k>>), user1Id |-> <<n>>, user2Id |-> <<k>>])
         IN  Add[n - 1]

InitPresence ==
    /\ users = UsersUpTo(MaxUsers)
    /\ messages = <<>>
    /\ friend_requests = <<>>
    /\ friends = FriendsUpTo(MaxUsers)
    /\ notifications = <<>>
    /\ online_users = <<>>
    /\ typing_users = <<>>
    /\ message_status = <<>>
    /\ sessions = [s \in SessionIds |-> NewSession]
    /\ threads = NoThreads
    /\ last = Result("init", None, None, 0, "", <<>>, <<>>)

NextPresence == HandleConnect \/ HandleDisconnect \/ RemoveFriend

SpecPresence == InitPresence /\ [][NextPresence]_vars

\* ---- typing: users registered and friends, user 1 connected on session 1,
\* session 2 not opened yet, the later sessions opened by user 2 and closed
InitTyping ==
    /\ users = UsersUpTo(MaxUsers)
    /\ messages = <<>>
    /\ friend_requests = <<>>
    /\ friends = FriendsUpTo(MaxUsers)
    /\ notifications = <<>>
    /\ online_users = DictSet(<<>>, <<1>>, 1)
    /\ typing_users = <<>>
    /\ message_status = <<>>
    /\ sessions = [s \in SessionIds |-> IF s = 1 THEN OpenSession(<<1>>)
                                        ELSE IF s = 2 THEN NewSession
                                        ELSE ClosedSession(<<2>>)]
    /\ threads = NoThreads
    /\ last = Result("init", None, None, 0, "", <<>>, <<>>)

NextTyping ==
    \/ HandleTyping
    \/ HandleStopTyping
    \/ HandleConnect
    \/ HandleDisconnect
    \/ DeleteAccount

SpecTyping == InitTyping /\ [][NextTyping]_vars

\* ---- presence, step by step: users registered and friends, nobody connected
InitPresenceRace ==
    /\ users = UsersUpTo(MaxUsers)
    /\ messages = <<>>
    /\ friend_requests = <<>>
    /\ friends = FriendsUpTo(MaxUsers)
    /\ notifications = <<>>
    /\ online_users = <<>>
    /\ typing_users = <<>>
    /\ message_status = <<>>
    /\ sessions = [s \in SessionIds |-> NewSession]
    /\ threads = AllIdle
    /\ last = Result("init", None, None, 0, "", <<>>, <<>>)

NextPresenceRace == HandleConnect \/ DisconnectSnapshot \/ DisconnectScan

SpecPresenceRace == InitPresenceRace /\ [][NextPresenceRace]_vars

\* ---- messaging, step by step: users registered and friends, user 1
\* connected on session 1
InitMsgRace ==
    /\ users = UsersUpTo(MaxUsers)
    /\ messages = <<>>
    /\ friend_requests = <<>>
    /\ friends = FriendsUpTo(MaxUsers)
    /\ notifications = <<>>
    /\ online_users = DictSet(<<>>, <<1>>, 1)
    /\ typing_users = <<>>
    /\ message_status = <<>>
    /\ sessions = [s \in SessionIds |-> IF s = 1 THEN OpenSession(<<1>>) ELSE NewSession]
    /\ threads = AllIdle
    /\ last = Result("init", None, None, 0, "", <<>>, <<>>)

NextMsgRace ==
    \/ SendMessageStore
    \/ SendMessageStatus
    \/ DeleteMessageRemove
    \/ DeleteMessageStatus
    \/ MarkSeenCheck
    \/ MarkSeenInsert
    \/ GetMessagesSnapshot
    \/ GetMessagesIter

SpecMsgRace == InitMsgRace /\ [][NextMsgRace]_vars

\* ---- registration, step by step, from the empty store
InitUsersRace ==
    /\ users = <<>>
    /\ messages = <<>>
    /\ friend_requests = <<>>
    /\ friends = <<>>
    /\ notifications = <<>>
    /\ online_users = <<>>
    /\ typing_users = <<>>
    /\ message_status = <<>>
    /\ sessions = [s \in SessionIds |-> NewSession]
    /\ threads = AllIdle
    /\ last = Result("init", None, None, 0, "", <<>>, <<>>)

NextUsersRace == RegisterScan \/ RegisterInsert \/ Login

SpecUsersRace == InitUsersRace /\ [][NextUsersRace]_vars

\* ---- notifications: the social graph's start, with the friend requests as
\* the source of notifications
NextNotifications ==
    \/ SendFriendRequest
    \/ RejectFriendRequest
    \/ MarkNotificationAsRead
    \/ MarkAllNotificationsAsRead
    \/ DeleteNotification
    \/ ClearAllNotifications

SpecNotifications == InitGraph /\ [][NextNotifications]_vars

\* ---- notification sources: the social graph's start with the three handlers
\* that create notifications; user 1 is connected, user 2 is not
NextAlerts ==
    \/ SendFriendRequest
    \/ AcceptFriendRequest
    \/ SendMessage
    \/ ClearAllNotifications

SpecAlerts == InitGraph /\ [][NextAlerts]_vars

\* ---- the HashTable by itself, from the empty table
NextStore == StoreInsert \/ StoreGet \/ StoreRemove

SpecStore == Init /\ [][NextStore]_vars

\* ---- message delivery: the social graph's start with the two handlers that
\* emit a message event, and the handlers that make two users friends
NextRelay ==
    \/ SendFriendRequest
    \/ AcceptFriendRequest
    \/ SendMessage
    \/ HandleSendMessage
    \/ ClearAllNotifications

SpecRelay == InitGraph /\ [][NextRelay]_vars

\* ------------------------------------------------------- social graph claims
FriendshipCount(a, b) ==
    Cardinality({j \in 1..Len(friends) : friends[j].key \in {PairId(a, b), PairId(b, a)}})

JustSentIn(requests, friendships, a, b) ==
    /\ Has(requests, PairId(a, b))
    /\ ~Has(friendships, PairId(a, b))
    /\ ~Has(friendships, PairId(b, a))

JustSent(a, b) == JustSentIn(friend_requests, friends, a, b)

AcceptedOnce(a, b) ==
    /\ last.op = "accept_friend_request"
    /\ last.code = 200
    /\ FriendshipCount(a, b) = 1
    /\ ~Has(friend_requests, PairId(a, b))
    /\ CountKey(friend_requests, PairId(a, b)) = 0
    /\ b \in ListedFriendIds(a)
    /\ a \in ListedFriendIds(b)

\* C1: a successful sendRequest(A,B) leaves A_B pending with no friendship
\* between A and B, and from every such state acceptRequest(B,A) succeeds,
\* leaves exactly one Friendship between A and B (either key), no request
\* A_B, and each user in the other's listFriends, whatever else is pending.
C1_AcceptAfterSend ==
    [][/\ (last'.op = "send_friend_request" /\ last'.code = 201)
            => JustSentIn(friend_requests', friends', last'.cur, last'.arg)
       /\ last'.op = "accept_friend_request"
            => \A a \in UserIdPool, b \in UserIdPool :
                  (JustSent(a, b) /\ accept_friend_request(b, a))
                      => AcceptedOnce(a, b)'
      ]_vars

\* an accept succeeded while the accepter's own request to the same user
\* was still pending
C1_Witness ==
    /\ last.op = "accept_friend_request"
    /\ last.code = 200
    /\ last.cur # last.arg
    /\ Has(friend_requests, PairId(last.cur, last.arg))
    /\ FriendshipCount(last.cur, last.arg) = 1

\* C2: for distinct users A and B the Friendship collection never holds
\* both the key A_B and the key B_A.
C2_StoredOnce ==
    \A a \in UserIdPool, b \in UserIdPool :
        a # b => ~(Has(friends, PairId(a, b)) /\ Has(friends, PairId(b, a)))

\* C3: a successful sendRequest(A,B) leaves exactly one request keyed A_B;
\* sendRequest(A,B) while A_B is pending fails Duplicate and changes no
\* request, notification or friendship; with A_B pending, sendRequest(B,A)
\* succeeds when B_A is not pending and the two are not friends.
C3_OnePendingPerOrderedPair ==
    [][last'.op = "send_friend_request" =>
        /\ last'.code = 201
              => CountKey(friend_requests', PairId(last'.cur, last'.arg)) = 1
        /\ \A a \in UserIdPool, b \in UserIdPool :
            /\ (Has(friend_requests, PairId(a, b)) /\ send_friend_request(a, b))
                  => /\ last' = Failure("send_friend_request", 409,
                                        "Friend request already sent!")
                     /\ UNCHANGED <<friend_requests, notifications, friends>>
            /\ (/\ a # b
                /\ Has(friend_requests, PairId(a, b))
                /\ ~Has(friend_requests, PairId(b, a))
                /\ ~AreFriends(a, b)
                /\ send_friend_request(b, a))
                  => /\ last'.code = 201
                     /\ Has(friend_requests', PairId(a, b))
                     /\ Has(friend_requests', PairId(b, a))
      ]_vars

\* a repeated request was refused while requests were pending both ways
C3_Witness ==
    /\ last = Failure("send_friend_request", 409, "Friend request already sent!")
    /\ \E a \in UserIdPool, b \in UserIdPool :
          /\ a # b
          /\ CountKey(friend_requests, PairId(a, b)) = 1
          /\ CountKey(friend_requests, PairId(b, a)) = 1

\* C10: right after rejectRequest(B,A) succeeded, sendRequest(A,B) succeeds
\* whenever B still exists.
C10_ResendAfterReject ==
    [][(/\ last.op = "reject_friend_request"
        /\ last.code = 200
        /\ last'.op = "send_friend_request"
        /\ Has(users, last.cur)
        /\ send_friend_request(last.arg, last.cur))
            => last'.code = 201
      ]_vars

\* ---------------------------------------------------------- messaging claims
StoredMessage(id) == Val(messages, id)
StoredStatus(id) == Val(message_status, id)

\* C5: a Message is created only by a successful sendMessage between users
\* with a Friendship (either key) at the time of the call; with an unknown
\* receiver the call fails ReceiverNotFound and with no Friendship NotFriends,
\* and then no Message, MessageStatus or Notification is created and no event
\* is emitted; a stored Message keeps sender, receiver and content.
C5_MessagesOnlyBetweenFriends ==
    [][/\ messages' # messages =>
            /\ \A id \in Keys(messages') \ Keys(messages) :
                /\ last'.op = "send_message"
                /\ last'.code = 201
                /\ last'.ret[1].id = id
                /\ AreFriends(last'.cur, last'.arg.receiverId)
                /\ Val(messages', id) = [id |-> id, senderId |-> last'.cur,
                                         receiverId |-> last'.arg.receiverId,
                                         content |-> last'.arg.content,
                                         timestamp |-> last'.ret[1].timestamp]
            /\ \A id \in Keys(messages') \cap Keys(messages) :
                Val(messages', id) = Val(messages, id)
       /\ last'.op = "send_message" =>
            /\ last'.code \in {403, 404}
                  => /\ UNCHANGED <<messages, message_status, notifications>>
                     /\ last'.ev = <<>>
            /\ \A cur \in CurrentUsers, data \in MessageData :
                (/\ ~FalsyId(data.receiverId)
                 /\ ~Falsy(data.content)
                 /\ ~Has(users, data.receiverId) \/ ~AreFriends(cur, data.receiverId)
                 /\ last' # IF ~Has(users, data.receiverId)
                            THEN Failure("send_message", 404, "Receiver not found!")
                            ELSE Failure("send_message", 403,
                                         "You are not friends with this user!"))
                    => ~send_message(cur, data)
      ]_vars

\* sendMessage was refused with NotFriends while a message of an earlier
\* friendship is still stored
C5_Witness ==
    /\ last = Failure("send_message", 403, "You are not friends with this user!")
    /\ \E j \in 1..Len(messages) :
          ~AreFriends(messages[j].value.senderId, messages[j].value.receiverId)

\* C6: a MessageStatus with key m exists if and only if a Message with key
\* m exists, each at most once.
C6_StatusIffMessage ==
    /\ Keys(message_status) = Keys(messages)
    /\ \A id \in MessageIdPool :
          /\ CountKey(messages, id) <= 1
          /\ CountKey(message_status, id) = CountKey(messages, id)

\* a message was deleted while another message and its status remain
C6_Witness ==
    /\ last.op = "delete_message"
    /\ last.code = 200
    /\ Len(messages) >= 1
    /\ \E j \in 1..Len(message_status) : message_status[j].value.seen

Returned(ret, id) == {j \in 1..Len(ret) : ret[j].id = id}

\* C7 (for distinct users A and B): a sent message starts unseen; a
\* getConversation by its sender returns it with the stored seen flag and
\* leaves its status as it is; a getConversation by its receiver returns it,
\* stores seen=true and, if it was unseen, emits message_seen to the sender
\* exactly when the sender is online; a stored seen=true is returned as
\* seen=true and is never set back.
C7_SeenRoundTrip ==
    [][/\ (last'.op = "send_message" /\ last'.code = 201)
            => ~Val(message_status', last'.ret[1].id).seen
       /\ \A id \in Keys(messages) \cap Keys(messages') :
            StoredStatus(id).seen => Val(message_status', id).seen
       /\ (last'.op = "get_messages" /\ last'.code = 200 /\ last'.cur # last'.arg)
            => \A id \in Keys(messages) :
                LET m == StoredMessage(id)
                    seen == StoredStatus(id).seen
                    ret == last'.ret
                    seen_event == Emit("message_seen", online_users[m.senderId], id)
                    emitted == \E j \in 1..Len(last'.ev) : last'.ev[j].payload = id
                IN  /\ (m.senderId = last'.cur /\ m.receiverId = last'.arg)
                        => /\ Cardinality(Returned(ret, id)) = 1
                           /\ \A j \in Returned(ret, id) : ret[j].seen = seen
                           /\ Val(message_status', id) = StoredStatus(id)
                           /\ ~emitted
                    /\ (m.senderId = last'.arg /\ m.receiverId = last'.cur)
                        => /\ Cardinality(Returned(ret, id)) = 1
                           /\ \A j \in Returned(ret, id) : ret[j].seen = seen
                           /\ Val(message_status', id).seen
                           /\ emitted <=> (~seen /\ Online(m.senderId))
                           /\ emitted => \E j \in 1..Len(last'.ev) : last'.ev[j] = seen_event
      ]_vars

\* the receiver's retrieval returned a message as unseen, stored it as seen
\* and emitted message_seen to the online sender
C7_Witness ==
    /\ last.op = "get_messages"
    /\ last.code = 200
    /\ last.cur # last.arg
    /\ \E j \in 1..Len(last.ret) :
          /\ last.ret[j].senderId = last.arg
          /\ ~last.ret[j].seen
          /\ Has(message_status, last.ret[j].id)
          /\ StoredStatus(last.ret[j].id).seen
          /\ \E e \in 1..Len(last.ev) :
                last.ev[e] = Emit("message_seen", online_users[last.arg], last.ret[j].id)

\* ----------------------------------------------------------- identity claims
NoSharedEmail ==
    \A i \in 1..Len(users), j \in 1..Len(users) :
        i # j => users[i].value.email # users[j].value.email

EmailHeld(email) == \E j \in 1..Len(users) : users[j].value.email = email

\* C4: no two User records share an email; createUser with an email that a
\* user holds fails Duplicate and adds no user; updateProfile changes no
\* email; after a successful createUser findByEmail of its email returns
\* exactly the created record.
C4_EmailUnique ==
    [][/\ NoSharedEmail'
       /\ last'.op = "register" =>
            /\ last'.code = 201 =>
                LET created == last'.ret[1]
                IN  /\ created.email = last'.arg.email
                    /\ ~EmailHeld(created.email)
                    /\ FindByEmail(HashTable_get_all(users'), created.email) = Some(created)
                    /\ HashTable_get(users', created.id) = Some(created)
                    /\ Len(users') = Len(users) + 1
            /\ last'.code = 409 => users' = users
            /\ \A data \in RegisterData :
                (/\ ~Falsy(data.username) /\ ~Falsy(data.email) /\ ~Falsy(data.password)
                 /\ EmailHeld(data.email)
                 /\ last' # Failure("register", 409, "User already exists!"))
                    => ~register(data)
       /\ last'.op = "update_profile" =>
            /\ Len(users') = Len(users)
            /\ \A j \in 1..Len(users) :
                  /\ users'[j].key = users[j].key
                  /\ users'[j].value.email = users[j].value.email
      ]_vars

\* a registration was refused as a duplicate after a profile update, with
\* two users stored
C4_Witness ==
    /\ last = Failure("register", 409, "User already exists!")
    /\ Len(users) >= 2
    /\ \E j \in 1..Len(users) : users[j].value.username = "zed"

NoReference(u) ==
    /\ ~Has(users, u)
    /\ \A j \in 1..Len(friends) :
          friends[j].value.user1Id # u /\ friends[j].value.user2Id # u
    /\ \A j \in 1..Len(friend_requests) :
          friend_requests[j].value.senderId # u /\ friend_requests[j].value.receiverId # u
    /\ \A j \in 1..Len(messages) :
          messages[j].value.senderId # u /\ messages[j].value.receiverId # u
    /\ Keys(message_status) \subseteq Keys(messages)
    /\ \A j \in 1..Len(notifications) :
          /\ notifications[j].value.receiverId # u
          /\ "senderId" \in DOMAIN notifications[j].value
                => notifications[j].value.senderId # u
    /\ u \notin DOMAIN online_users

\* C8: deleteAccount(U) with the correct credential completes successfully
\* and leaves no User, Friendship, FriendRequest, Message, MessageStatus,
\* Notification or presence entry that references U.
C8_DeleteAccountCascades ==
    [][last'.op = "delete_account" =>
        \A u \in CurrentUsers, data \in DeleteData :
            (/\ check_password_hash(Val(users, u).password, data.password)
             /\ delete_account(u, data))
                => /\ last'.code = 200
                   /\ NoReference(u)'
      ]_vars

\* ----------------------------------------------------------- presence claims
Owners(sid) == {u \in DOMAIN online_users : online_users[u] = sid}

\* C9: a connect with a user id sets that user's entry to the new session
\* and changes no other entry; a disconnect of a session that owns no entry
\* (a superseded one) changes no entry and emits nothing; a disconnect of the
\* session that owns U's entry removes exactly that entry and emits a
\* friend_status offline event to every online friend of U, and to nobody else.
C9_LastConnectWins ==
    [][/\ (last'.op = "connect" /\ last'.cur # <<>>)
            => /\ online_users' = DictSet(online_users, last'.cur, last'.arg)
               /\ online_users'[last'.cur] = last'.arg
       /\ last'.op = "disconnect" =>
            LET sid == last'.arg
                ev == last'.ev
                Offline(u, v) == Emit("friend_status", online_users[v],
                                      [userId |-> u, status |-> "offline"])
            IN  /\ Cardinality(Owners(sid)) <= 1
                /\ Owners(sid) = {} => (online_users' = online_users /\ ev = <<>>)
                /\ \A u \in Owners(sid) :
                      /\ online_users' = DictDel(online_users, u)
                      /\ \A v \in DOMAIN online_users :
                            (v # u /\ AreFriends(u, v))
                                => \E j \in 1..Len(ev) : ev[j] = Offline(u, v)
                      /\ \A j \in 1..Len(ev) :
                            \E v \in DOMAIN online_users :
                                v # u /\ AreFriends(u, v) /\ ev[j] = Offline(u, v)
      ]_vars

\* the superseded session of a user was closed while the user stays online
\* on the later session, next to an online friend
C9_Witness ==
    /\ last.op = "disconnect"
    /\ last.cur = None
    /\ last.ev = <<>>
    /\ LET u == sessions[last.arg].user
       IN  /\ u # <<>>
           /\ u \in DOMAIN online_users
           /\ online_users[u] # last.arg
           /\ \E v \in DOMAIN online_users : v # u /\ AreFriends(u, v)

\* ------------------------------------------------------- removeFriend claims
\* C11: removeFriend(U,V) with neither key stored fails FriendshipNotFound
\* and changes nothing; otherwise it succeeds and afterwards no Friendship
\* between U and V is stored under either key, V is not in listFriends(U),
\* and the friendship check of sendMessage and getConversation between U and
\* V answers NotFriends.
C11_RemoveFriendSeparates ==
    [][last'.op = "remove_friend" =>
        \A u \in CurrentUsers, v \in PathIds :
            remove_friend(u, v) =>
                IF ~AreFriends(u, v)
                THEN /\ last' = Failure("remove_friend", 404, "Friendship not found!")
                     /\ UNCHANGED <<users, messages, friend_requests, friends,
                                    notifications, message_status, online_users>>
                ELSE /\ last'.code = 200
                     /\ ~Has(friends', PairId(u, v))
                     /\ ~Has(friends', PairId(v, u))
                     /\ v \notin ListedFriendIds(u)'
                     /\ not_friends(u, v)'
                     /\ not_friends(v, u)'
      ]_vars

\* ------------------------------------------------------------- fault claims
\* the status codes of success and of the typed rejections (invalid input,
\* bad credential, forbidden, not found, duplicate or conflict); 0 is a
\* transport handler that returned
ControlledCodes == {0, 200, 201, 400, 401, 403, 404, 409}

\* C12: every operation, with any authenticated caller and any payload, ends
\* in success or in a typed rejection; none ends in an uncontrolled fault.
C12_NoUncontrolledFault == last.code \in ControlledCodes

\* ------------------------------------------------------- concurrency claims
\* C13: a disconnect of session s1 that runs while the same user connects on
\* session s2 never deletes the entry the connect wrote: a finishing
\* disconnect leaves every entry of another session in place.
C13_StaleDisconnectKeepsReconnect ==
    [][\A t \in ThreadIds :
          disconnect_scan(t) =>
              \A u \in DOMAIN online_users :
                  online_users[u] # threads[t].sid
                      => /\ u \in DOMAIN online_users'
                         /\ online_users'[u] = online_users[u]
      ]_vars

InConversation(message, cur, friend_id) ==
    \/ (message.senderId = cur /\ message.receiverId = friend_id)
    \/ (message.senderId = friend_id /\ message.receiverId = cur)

\* C14: with sendMessage, deleteMessage, markSeen and getConversation in
\* flight together, getConversation never reads a Message of the
\* conversation for which no MessageStatus is stored, and whenever no
\* operation is in flight a MessageStatus m is stored if and only if a
\* Message m is.
C14_StatusPairedUnderInterleaving ==
    [][/\ \A t \in ThreadIds :
            (get_messages_iter(t) /\ threads[t].rest # <<>>
               /\ InConversation(Head(threads[t].rest), threads[t].cur,
                                 threads[t].friend_id))
                => Has(message_status, Head(threads[t].rest).id)
       /\ threads' = AllIdle => Keys(message_status') = Keys(messages')
      ]_vars

\* C15: with two createUser calls for one email in flight together, the
\* second writer's check still holds when it inserts: an insert never adds
\* an email that a stored user holds, and no two Users share an email.
C15_ConcurrentRegisterUnique ==
    [][/\ \A t \in ThreadIds :
            register_insert(t) => ~EmailHeld(threads[t].data.email)
       /\ NoSharedEmail'
      ]_vars

\* ------------------------------------------------------------ typing claims
\* every pair but (u, t) keeps its entry, or its absence
OtherTypingKept(u, t) ==
    \A a \in UserIdPool, b \in UserIdPool :
        <<a, b>> # <<u, t>> =>
            /\ HasTyping(typing_users', a, b) <=> HasTyping(typing_users, a, b)
            /\ HasTyping(typing_users, a, b) => typing_users'[a][b] = typing_users[a][b]

ValidTyping(data) ==
    data.body = "json" /\ ~FalsyId(data.userId) /\ ~FalsyId(data.targetId)

\* C16: setTyping(U,T) records or overwrites the entry of (U,T) with the
\* time of the call; clearTyping(U,T) deletes it and, with no entry, returns
\* without an error and leaves the typing state as it is; each of the two
\* leaves every other pair alone, and no other operation (connect,
\* disconnect, a request handler) changes any entry.
C16_TypingFollowsLastOperation ==
    [][/\ last'.op = "handle_typing" =>
            \A data \in TypingData :
                (ValidTyping(data) /\ handle_typing(data)) =>
                    /\ last'.code = 0
                    /\ HasTyping(typing_users', data.userId, data.targetId)
                    /\ typing_users'[data.userId][data.targetId] = last'.ret[1]
                    /\ OtherTypingKept(data.userId, data.targetId)
       /\ last'.op = "handle_stop_typing" =>
            \A data \in TypingData :
                (ValidTyping(data) /\ handle_stop_typing(data)) =>
                    /\ last'.code = 0
                    /\ ~HasTyping(typing_users', data.userId, data.targetId)
                    /\ OtherTypingKept(data.userId, data.targetId)
                    /\ ~HasTyping(typing_users, data.userId, data.targetId)
                          => typing_users' = typing_users
       /\ (HandleConnect \/ HandleDisconnect \/ DeleteAccount)
            => typing_users' = typing_users
      ]_vars

\* a user's session was closed and the user went offline while an entry of
\* that user, overwritten at a later time than another one, is still stored
C16_Witness ==
    /\ last.op = "disconnect"
    /\ last.cur # None
    /\ ~Online(last.cur)
    /\ \E t \in UserIdPool :
          /\ HasTyping(typing_users, last.cur, t)
          /\ typing_users[last.cur][t] = MaxTypingTime
          /\ \E b \in UserIdPool : /\ HasTyping(typing_users, t, b)
                                   /\ typing_users[t][b] < MaxTypingTime

\* ------------------------------------------------- message operation claims
OtherMessagesKept(id) ==
    /\ Keys(messages') = Keys(messages) \ {id}
    /\ Keys(message_status') = Keys(message_status) \ {id}
    /\ Len(messages') = Cardinality(Keys(messages'))
    /\ Len(message_status') = Cardinality(Keys(message_status'))
    /\ \A other \in Keys(messages') : Val(messages', other) = Val(messages, other)
    /\ \A other \in Keys(message_status') :
          Val(message_status', other) = Val(message_status, other)

\* C17: deleteMessage(requester, m) fails MessageNotFound when m is not
\* stored and Forbidden when the requester is not the sender of m, and then
\* changes no Message and no MessageStatus; when the requester is the sender
\* it removes Message m and MessageStatus m and no other message or status.
C17_DeleteMessage ==
    [][last'.op = "delete_message" =>
        \A cur \in CurrentUsers, id \in MessagePathIds :
            delete_message(cur, id) =>
                IF ~Has(messages, id)
                THEN /\ last' = Failure("delete_message", 404, "Message not found!")
                     /\ UNCHANGED <<messages, message_status>>
                ELSE IF StoredMessage(id).senderId # cur
                THEN /\ last' = Failure("delete_message", 403,
                                        "You can only delete your own messages!")
                     /\ UNCHANGED <<messages, message_status>>
                ELSE /\ last'.code = 200
                     /\ Has(message_status, id)
                     /\ OtherMessagesKept(id)
      ]_vars

\* the sender deleted one of two messages; the other, received by the
\* requester, and its status are still stored
C17_Witness ==
    /\ last.op = "delete_message"
    /\ last.code = 200
    /\ Len(messages) = 1
    /\ Keys(message_status) = Keys(messages)
    /\ messages[1].value.receiverId = last.cur
    /\ messages[1].value.senderId # last.cur

\* C18: markSeen(requester, m) fails MessageNotFound when m is not stored
\* and Forbidden when the requester is not the receiver of m, and then
\* changes no MessageStatus and emits nothing; when the requester is the
\* receiver it stores seen=true for m, changes no other status, and emits
\* message_seen to the sender's session exactly when the sender is online.
\* No step sets a stored seen=true back while the message stays stored.
C18_MarkSeen ==
    [][/\ last'.op = "mark_message_as_seen" =>
            \A cur \in CurrentUsers, id \in MessagePathIds :
                mark_message_as_seen(cur, id) =>
                    IF ~Has(messages, id)
                    THEN /\ last' = Failure("mark_message_as_seen", 404,
                                            "Message not found!")
                         /\ last'.ev = <<>>
                         /\ UNCHANGED message_status
                    ELSE IF StoredMessage(id).receiverId # cur
                    THEN /\ last' = Failure("mark_message_as_seen", 403,
                                "You can only mark messages sent to you as seen!")
                         /\ last'.ev = <<>>
                         /\ UNCHANGED message_status
                    ELSE LET sender == StoredMessage(id).senderId
                         IN  /\ last'.code = 200
                             /\ Val(message_status', id).seen
                             /\ Keys(message_status') = Keys(message_status) \cup {id}
                             /\ \A other \in Keys(message_status) \ {id} :
                                   Val(message_status', other) = Val(message_status, other)
                             /\ UNCHANGED messages
                             /\ last'.ev = IF sender \in DOMAIN online_users
                                           THEN <<Emit("message_seen", online_users[sender], id)>>
                                           ELSE <<>>
       /\ \A id \in Keys(messages) \cap Keys(messages') :
            (Has(message_status, id) /\ StoredStatus(id).seen)
                => (Has(message_status', id) /\ Val(message_status', id).seen)
      ]_vars

\* the receiver marked a message of the online sender as seen and the
\* sender's session got the message_seen event
C18_Witness ==
    /\ last.op = "mark_message_as_seen"
    /\ last.code = 200
    /\ Has(messages, last.arg)
    /\ StoredMessage(last.arg).receiverId = last.cur
    /\ StoredMessage(last.arg).senderId # last.cur
    /\ StoredStatus(last.arg).seen
    /\ StoredMessage(last.arg).senderId \in DOMAIN online_users
    /\ last.ev = <<Emit("message_seen", online_users[StoredMessage(last.arg).senderId],
                        last.arg)>>

\* ------------------------------------------------------ notification claims
StoredNotification(id) == Val(notifications, id)

ReceivedBy(t, u) == SelectSeq(t, LAMBDA n : n.value.receiverId = u)

\* every notification but those in ids is stored as before, at its place
NotificationsKeptBut(ids) ==
    /\ Keys(notifications') = Keys(notifications) \ ids
    /\ SelectSeq(notifications, LAMBDA n : n.key \notin ids) = notifications'

\* C19: markRead(U, n) fails NotificationNotFound when n is not stored and
\* Forbidden when its receiver is not U, and then changes nothing; otherwise
\* it sets n's read flag and changes no other field and no other
\* notification, and on a notification that is read already it succeeds and
\* changes nothing.  delete(U, n) makes the same checks and removes only n.
C19_MarkReadAndDelete ==
    [][/\ last'.op = "mark_notification_as_read" =>
            \A cur \in CurrentUsers, id \in NotificationPathIds :
                mark_notification_as_read(cur, id) =>
                    IF ~Has(notifications, id)
                    THEN /\ last' = Failure("mark_notification_as_read", 404,
                                            "Notification not found!")
                         /\ UNCHANGED notifications
                    ELSE IF StoredNotification(id).receiverId # cur
                    THEN /\ last' = Failure("mark_notification_as_read", 403,
                                "You can only mark your own notifications as read!")
                         /\ UNCHANGED notifications
                    ELSE /\ last'.code = 200
                         /\ Len(notifications') = Len(notifications)
                         /\ \A j \in 1..Len(notifications) :
                               notifications'[j] =
                                   IF notifications[j].key = id
                                   THEN [notifications[j] EXCEPT !.value.read = TRUE]
                                   ELSE notifications[j]
                         /\ StoredNotification(id).read => UNCHANGED notifications
       /\ last'.op = "delete_notification" =>
            \A cur \in CurrentUsers, id \in NotificationPathIds :
                delete_notification(cur, id) =>
                    IF ~Has(notifications, id)
                    THEN /\ last' = Failure("delete_notification", 404,
                                            "Notification not found!")
                         /\ UNCHANGED notifications
                    ELSE IF StoredNotification(id).receiverId # cur
                    THEN /\ last' = Failure("delete_notification", 403,
                                "You can only delete your own notifications!")
                         /\ UNCHANGED notifications
                    ELSE /\ last'.code = 200
                         /\ NotificationsKeptBut({id})
      ]_vars

\* a user marked their own notification read while the unread notification
\* of another user is stored
C19_Witness ==
    /\ last.op = "mark_notification_as_read"
    /\ last.code = 200
    /\ Has(notifications, last.arg)
    /\ StoredNotification(last.arg).read
    /\ StoredNotification(last.arg).receiverId = last.cur
    /\ \E j \in 1..Len(notifications) :
          /\ notifications[j].value.receiverId # last.cur
          /\ ~notifications[j].value.read

\* C20: markAllRead(U) sets the read flag of every notification received by
\* U and changes nothing else; clearAll(U) removes every notification
\* received by U and no other, so that afterwards U's list is empty and the
\* list of every other user is as before.
C20_BulkTouchesOnlyCaller ==
    [][/\ last'.op = "mark_all_notifications_as_read" =>
            \A cur \in CurrentUsers :
                mark_all_notifications_as_read(cur) =>
                    /\ last'.code = 200
                    /\ Len(notifications') = Len(notifications)
                    /\ \A j \in 1..Len(notifications) :
                          notifications'[j] =
                              IF notifications[j].value.receiverId = cur
                              THEN [notifications[j] EXCEPT !.value.read = TRUE]
                              ELSE notifications[j]
       /\ last'.op = "clear_all_notifications" =>
            \A cur \in CurrentUsers :
                clear_all_notifications(cur) =>
                    /\ last'.code = 200
                    /\ ReceivedBy(notifications', cur) = <<>>
                    /\ \A v \in UserIdPool \ {cur} :
                          ReceivedBy(notifications', v) = ReceivedBy(notifications, v)
                    /\ NotificationsKeptBut({notifications[j].key :
                          j \in {i \in 1..Len(notifications) :
                                   notifications[i].value.receiverId = cur}})
      ]_vars

\* a user cleared their notifications while a notification of another user,
\* read already, stays stored
C20_Witness ==
    /\ last.op = "clear_all_notifications"
    /\ ReceivedBy(notifications, last.cur) = <<>>
    /\ \E j \in 1..Len(notifications) :
          /\ notifications[j].value.receiverId # last.cur
          /\ notifications[j].value.read

\* ------------------------------------------------ notification creation claims
\* the nodes of the table new that the table old has no key for
AddedNodes(old, new) == SelectSeq(new, LAMBDA n : ~Has(old, n.key))

\* every entry of old is stored unchanged in new
KeptNodes(old, new) ==
    \A j \in 1..Len(old) : HashTable_get(new, old[j].key) = Some(old[j].value)

\* an unread notification of the given type for the given receiver
UnreadFor(n, type, receiver) ==
    n.type = type /\ n.receiverId = receiver /\ n.read = FALSE

\* the list the receiver of n gets from get_notifications holds n
ListedForReceiver(t, n) ==
    \E j \in 1..Len(ListForUser(HashTable_get_all(t), n.receiverId)) :
        ListForUser(HashTable_get_all(t), n.receiverId)[j] = n

\* the "notification" events of a step
NotificationEvents(ev) == SelectSeq(ev, LAMBDA e : e.event = "notification")

\* C21: a successful send_friend_request stores exactly one new notification,
\* unread, of type friend_request, for the receiver; a successful
\* accept_friend_request stores exactly two, unread, of type system, the one
\* "You are now friends with" for the accepter and the one "accepted your
\* friend request" for the requester; a successful send_message stores exactly
\* one, unread, of type message, for the receiver; the stored notifications are
\* otherwise kept; a notification event carries a notification created by the
\* step, whose receiver is in online_users and to whose session it is sent;
\* and every created notification, also one whose receiver is not connected,
\* is in the list get_notifications gives its receiver
C21_NotificationsCreated ==
    [][LET added == AddedNodes(notifications, notifications')
           live == NotificationEvents(last'.ev)
       IN
       /\ (last'.op = "send_friend_request" /\ last'.code = 201) =>
            /\ Len(added) = 1
            /\ UnreadFor(added[1].value, "friend_request", last'.arg)
            /\ added[1].value.senderId = last'.cur
       /\ (last'.op = "accept_friend_request" /\ last'.code = 200) =>
            /\ Len(added) = 2
            /\ \E i \in 1..2 :
                 /\ UnreadFor(added[i].value, "system", last'.cur)
                 /\ added[i].value.content[1] = "You are now friends with"
                 /\ UnreadFor(added[3 - i].value, "system", last'.arg)
                 /\ added[3 - i].value.content[2] = "accepted your friend request"
       /\ (last'.op = "send_message" /\ last'.code = 201) =>
            /\ Len(added) = 1
            /\ UnreadFor(added[1].value, "message", last'.arg.receiverId)
            /\ added[1].value.senderId = last'.cur
       /\ last'.op \in {"send_friend_request", "accept_friend_request", "send_message"} =>
            /\ KeptNodes(notifications, notifications')
            /\ Len(notifications') = Len(notifications) + Len(added)
            /\ \A j \in 1..Len(added) :
                 /\ added[j].key = added[j].value.id
                 /\ ListedForReceiver(notifications', added[j].value)
            /\ \A j \in 1..Len(live) :
                 /\ \E k \in 1..Len(added) : added[k].value = live[j].payload
                 /\ live[j].payload.receiverId \in DOMAIN online_users
                 /\ live[j].room = online_users[live[j].payload.receiverId]
      ]_vars

\* an accepted request whose requester is not connected: nothing is sent live
\* and both users find their notification in their list
C21_Witness ==
    /\ last.op = "accept_friend_request" /\ last.code = 200
    /\ last.arg \notin DOMAIN online_users
    /\ NotificationEvents(last.ev) = <<>>
    /\ Len(ListForUser(HashTable_get_all(notifications), last.arg)) >= 1
    /\ Len(ListForUser(HashTable_get_all(notifications), last.cur)) >= 1

\* ---------------------------------------------------------- HashTable claims
\* get gives the same answer in both tables for every key but k
OtherKeysKept(old, new, k) ==
    \A other \in StoreKeys \ {k} : HashTable_get(new, other) = HashTable_get(old, other)

\* get_all holds one value for every key that get finds, and no other value
OneValuePerKey(t) ==
    /\ \A k \in StoreKeys : CountKey(t, k) = IF Has(t, k) THEN 1 ELSE 0
    /\ Len(HashTable_get_all(t)) = Cardinality({k \in StoreKeys : Has(t, k)})

\* C22: after insert(k, v), get(k) returns v and get_all() holds exactly one
\* value for every stored key; get(k) changes nothing; remove(k) returns True
\* exactly when k was stored and afterwards get(k) returns None; none of the
\* three changes what get returns for another key, of the same bucket or not
C22_StoreContract ==
    [][/\ last'.op = "HashTable.insert" =>
            /\ HashTable_get(messages', last'.arg.key) = Some(last'.arg.value)
            /\ OneValuePerKey(messages')
            /\ OtherKeysKept(messages, messages', last'.arg.key)
       /\ last'.op = "HashTable.get" =>
            /\ messages' = messages
            /\ last'.ret = HashTable_get(messages, last'.arg.key)
       /\ last'.op = "HashTable.remove" =>
            /\ last'.ret = Has(messages, last'.arg.key)
            /\ HashTable_get(messages', last'.arg.key) = None
            /\ OneValuePerKey(messages')
            /\ OtherKeysKept(messages, messages', last'.arg.key)
      ]_vars

\* -------------------------------------------------------- conversation claims
\* ids of the stored messages between the two users, in either direction
ConversationIds(t, cur, friend_id) ==
    {t[j].key : j \in {i \in 1..Len(t) : InConversation(t[i].value, cur, friend_id)}}

\* the returned entry is the stored message of that id
ReturnsStored(entry) ==
    /\ Has(messages, entry.id)
    /\ StoredMessage(entry.id).senderId = entry.senderId
    /\ StoredMessage(entry.id).receiverId = entry.receiverId
    /\ StoredMessage(entry.id).content = entry.content
    /\ StoredMessage(entry.id).timestamp = entry.timestamp

\* C23: a successful get_messages(cur, friend_id) returns the stored messages
\* between the two users, each once and no other, ascending by timestamp; when
\* it directly follows the send_message that created a message of this
\* conversation, that message (the newest, whose timestamp no other exceeds)
\* is the last one returned; without a friendship get_messages answers 403 and
\* leaves message_status as it is
C23_Conversation ==
    [][last'.op = "get_messages" =>
        /\ last'.code = 200 =>
            /\ {last'.ret[j].id : j \in 1..Len(last'.ret)}
                   = ConversationIds(messages, last'.cur, last'.arg)
            /\ Len(last'.ret) = Cardinality(ConversationIds(messages, last'.cur, last'.arg))
            /\ \A j \in 1..Len(last'.ret) : ReturnsStored(last'.ret[j])
            /\ \A i, j \in 1..Len(last'.ret) :
                 i < j => last'.ret[i].timestamp <= last'.ret[j].timestamp
            /\ ~not_friends(last'.cur, last'.arg)
            /\ (/\ last.op = "send_message" /\ last.code = 201
                /\ InConversation(last.ret[1], last'.cur, last'.arg))
                   => last'.ret[Len(last'.ret)].id = last.ret[1].id
        /\ \A cur \in CurrentUsers, friend_id \in PathIds :
             (not_friends(cur, friend_id) /\ get_messages(cur, friend_id)) =>
                 /\ last'.code = 403
                 /\ message_status' = message_status
                 /\ last'.ev = <<>>
      ]_vars

\* --------------------------------------------------- social graph state claims
\* a request between the two users is stored, in one direction or the other
Pending(a, b) ==
    Has(friend_requests, PairId(a, b)) \/ Has(friend_requests, PairId(b, a))

\* C24: no two users have a stored friendship (under either key) and a stored
\* friend request (in either direction) at once; in particular none is left
\* between the two users of a successful accept_friend_request
C24_PendingOrFriends ==
    /\ \A a, b \in UserIdPool : ~(AreFriends(a, b) /\ Pending(a, b))
    /\ (last.op = "accept_friend_request" /\ last.code = 200) =>
           ~Pending(last.cur, last.arg)

\* C25: no stored friend request has senderId = receiverId, no stored
\* friendship has user1Id = user2Id, and get_friends lists no user among
\* their own friends
C25_NoSelfEdge ==
    /\ \A j \in 1..Len(friend_requests) :
          friend_requests[j].value.senderId # friend_requests[j].value.receiverId
    /\ \A j \in 1..Len(friends) :
          friends[j].value.user1Id # friends[j].value.user2Id
    /\ \A u \in CurrentUsers : u \notin ListedFriendIds(u)

\* ------------------------------------------------------ message event claims
\* the "message" events of a step
MessageEventsOf(ev) == SelectSeq(ev, LAMBDA e : e.event = "message")

\* a message with the payload's sender, receiver and content is stored in t
StoredAs(t, payload) ==
    \E j \in 1..Len(t) :
        /\ t[j].value.senderId = payload.senderId
        /\ t[j].value.receiverId = payload.receiverId
        /\ t[j].value.content = payload.content

\* C26: every message event a step emits goes to the session of the
\* payload's receiver, its payload is a message stored after the step, and
\* its sender and receiver are friends (under either key) when the step is
\* taken; this holds for the events of handle_send_message as for those of
\* send_message
C26_MessageEventsAreStored ==
    [][\A j \in 1..Len(MessageEventsOf(last'.ev)) :
         LET e == MessageEventsOf(last'.ev)[j] IN
         /\ e.payload.receiverId \in DOMAIN online_users
         /\ e.room = online_users[e.payload.receiverId]
         /\ StoredAs(messages', e.payload)
         /\ AreFriends(e.payload.senderId, e.payload.receiverId)
      ]_vars
====
